---- MODULE Spec2Model ----
(***************************************************************************)
(* PhoneShop product catalogue API (server.js, mysql2 variant).            *)
(*                                                                         *)
(* The model covers the product aggregate: the products table with its     *)
(* optional, probed columns, the three child tables (product_images,       *)
(* product_services, product_reviews) with their AUTO_INCREMENT keys and   *)
(* ON DELETE CASCADE foreign keys, the cached column set, and the HTTP     *)
(* handlers as processes that take one step per awaited SQL statement.     *)
(*                                                                         *)
(* Representation.                                                         *)
(*   - A string is a sequence of symbols; a symbol is a TLA+ string, most  *)
(*     often one character.  " " is the whitespace symbol.  The alphabet   *)
(*     has no quote and no backslash, so JSON text needs no escapes.       *)
(*   - A JavaScript value is a record [t, v]: t is the type tag, v the     *)
(*     payload (symbols of a string, elements of an array, <<key, value>>  *)
(*     pairs of an object in insertion order, a natural number).           *)
(*   - A SQL value is a JavaScript value of tag "string", "number" or      *)
(*     "null"; a JSON column holds the JSON text it was given.             *)
(*   - created_at columns are not modelled: they are assigned by the       *)
(*     server clock and no handler writes them.                            *)
(*   - Keys are compared exactly (no collation folding).                   *)
(***************************************************************************)
EXTENDS Integers, Sequences, FiniteSets, TLC

(***************************************************************************)
(* JavaScript values                                                       *)
(***************************************************************************)
Undefined == [t |-> "undefined", v |-> <<>>]
Null == [t |-> "null", v |-> <<>>]
NaN == [t |-> "NaN", v |-> <<>>]
Infinity == [t |-> "Infinity", v |-> <<>>]
Str(s) == [t |-> "string", v |-> s]
Num(n) == [t |-> "number", v |-> n]
Bool(b) == [t |-> "boolean", v |-> b]
Arr(a) == [t |-> "array", v |-> a]
Obj(o) == [t |-> "object", v |-> o]

EmptyStr == Str(<<>>)

\* typeof x === 'object' (null, arrays and plain objects)
TypeofObject(x) == x.t \in {"null", "array", "object"}

\* typeof x === 'string'
TypeofString(x) == x.t = "string"

\* typeof x === 'number'
TypeofNumber(x) == x.t \in {"number", "NaN", "Infinity"}

\* Array.isArray(x)
IsArray(x) == x.t = "array"

\* ToBoolean(x): the truthiness test of ||, &&, ! and ?:
Truthy(x) ==
  CASE x.t = "undefined" -> FALSE
    [] x.t = "null" -> FALSE
    [] x.t = "NaN" -> FALSE
    [] x.t = "string" -> x.v # <<>>
    [] x.t = "number" -> x.v # 0
    [] x.t = "boolean" -> x.v
    [] OTHER -> TRUE

\* a || b
Or(a, b) == IF Truthy(a) THEN a ELSE b

\* a ?? b
Coalesce(a, b) == IF a.t \in {"undefined", "null"} THEN b ELSE a

\* o.name: property read on any non-nullish value; only plain objects carry
\* the properties the handlers read
RECURSIVE Lookup(_, _)
Lookup(pairs, key) ==
  IF pairs = <<>> THEN Undefined
  ELSE LET last == pairs[Len(pairs)]
       IN IF last[1] = key THEN last[2]
          ELSE Lookup(SubSeq(pairs, 1, Len(pairs) - 1), key)

Get(o, name) == IF o.t = "object" THEN Lookup(o.v, <<name>>) ELSE Undefined

(***************************************************************************)
(* Strings                                                                 *)
(***************************************************************************)
IsSpace(c) == c = " "

RECURSIVE TrimStart(_)
TrimStart(s) ==
  IF s # <<>> /\ IsSpace(Head(s)) THEN TrimStart(Tail(s)) ELSE s

RECURSIVE TrimEnd(_)
TrimEnd(s) ==
  IF s # <<>> /\ IsSpace(s[Len(s)]) THEN TrimEnd(SubSeq(s, 1, Len(s) - 1)) ELSE s

\* String.prototype.trim
Trim(s) == TrimEnd(TrimStart(s))

\* String.prototype.slice(0, n)
Slice0(s, n) == SubSeq(s, 1, IF Len(s) < n THEN Len(s) ELSE n)

DigitSyms == <<"0", "1", "2", "3", "4", "5", "6", "7", "8", "9">>
Digits == {DigitSyms[i] : i \in 1..10}
DigitVal(c) == (CHOOSE i \in 1..10 : DigitSyms[i] = c) - 1

\* decimal text of a natural number
RECURSIVE NatToStr(_)
NatToStr(n) ==
  IF n < 10 THEN <<DigitSyms[n + 1]>>
  ELSE NatToStr(n \div 10) \o <<DigitSyms[(n % 10) + 1]>>

\* value of a non-empty run of digits
RECURSIVE DigitsToNat(_)
DigitsToNat(s) ==
  IF Len(s) = 1 THEN DigitVal(s[1])
  ELSE 10 * DigitsToNat(SubSeq(s, 1, Len(s) - 1)) + DigitVal(s[Len(s)])

AllDigits(s) == s # <<>> /\ \A i \in 1..Len(s) : s[i] \in Digits

\* String(x) and x.toString() for the values the handlers convert
RECURSIVE ToStr(_)
RECURSIVE JoinElems(_)
JoinElems(a) ==
  IF a = <<>> THEN <<>>
  ELSE LET h == IF Head(a).t \in {"undefined", "null"} THEN <<>> ELSE ToStr(Head(a))
       IN IF Len(a) = 1 THEN h ELSE h \o <<",">> \o JoinElems(Tail(a))

ToStr(x) ==
  CASE x.t = "string" -> x.v
    [] x.t = "number" -> NatToStr(x.v)
    [] x.t = "NaN" -> <<"NaN">>
    [] x.t = "Infinity" -> <<"Infinity">>
    [] x.t = "boolean" -> IF x.v THEN <<"true">> ELSE <<"false">>
    [] x.t = "null" -> <<"null">>
    [] x.t = "undefined" -> <<"undefined">>
    [] x.t = "array" -> JoinElems(x.v)
    [] OTHER -> <<"[object Object]">>

\* Number(x) of a string: the numeric literals of the model are the runs of
\* digits and Infinity
StrToNumber(s) ==
  LET tr == Trim(s)
  IN IF tr = <<>> THEN Num(0)
     ELSE IF AllDigits(tr) THEN Num(DigitsToNat(tr))
     ELSE IF tr = <<"Infinity">> THEN Infinity
     ELSE NaN

ToNumberJS(x) ==
  CASE x.t = "number" -> x
    [] x.t = "NaN" -> NaN
    [] x.t = "Infinity" -> Infinity
    [] x.t = "undefined" -> NaN
    [] x.t = "null" -> Num(0)
    [] x.t = "boolean" -> IF x.v THEN Num(1) ELSE Num(0)
    [] x.t = "string" -> StrToNumber(x.v)
    [] x.t = "array" -> StrToNumber(JoinElems(x.v))
    [] OTHER -> NaN

\* Number.isFinite(n): neither NaN nor Infinity
IsFinite(n) == n.t = "number"

\* toNumber(value, fallback)
toNumber(value, fallback) ==
  LET n == ToNumberJS(value)
  IN IF IsFinite(n) THEN n ELSE fallback

\* normalizeArray(value)
normalizeArray(value) == IF IsArray(value) THEN value ELSE Arr(<<>>)

\* fault: the test of the empty trimmed string left out, Number('') is 0
maybeNumber_NoEmptyTest(value) ==
  IF TypeofNumber(value) THEN value
  ELSE IF TypeofString(value)
       THEN LET n == StrToNumber(Trim(value.v))
            IN IF IsFinite(n) THEN n ELSE value
       ELSE value

\* maybeNumber(value)
maybeNumber(value) ==
  IF TypeofNumber(value) THEN value
  ELSE IF TypeofString(value)
       THEN LET trimmed == Trim(value.v)
            IN IF trimmed = <<>> THEN EmptyStr
               ELSE LET n == StrToNumber(trimmed)
                    IN IF IsFinite(n) THEN n ELSE value
       ELSE value

\* toDateString(value): stored dates are strings here (no Date objects)
toDateString(value) ==
  IF ~Truthy(value) THEN EmptyStr
  ELSE LET s == ToStr(value)
       IN IF \E i \in 1..Len(s) : s[i] = "T" THEN Str(Slice0(s, 10)) ELSE Str(s)

(***************************************************************************)
(* JSON text                                                               *)
(***************************************************************************)
\* JSON.stringify(x).  An undefined or NaN array element is written null, a
\* property whose value is undefined is left out.
RECURSIVE Stringify(_)
RECURSIVE StringifyElems(_)
RECURSIVE StringifyMembers(_, _)

StringifyElems(a) ==
  IF a = <<>> THEN <<>>
  ELSE LET h == IF Head(a).t = "undefined" THEN <<"null">> ELSE Stringify(Head(a))
       IN IF Len(a) = 1 THEN h ELSE h \o <<",">> \o StringifyElems(Tail(a))

StringifyMembers(o, first) ==
  IF o = <<>> THEN <<>>
  ELSE IF Head(o)[2].t = "undefined" THEN StringifyMembers(Tail(o), first)
  ELSE (IF first THEN <<>> ELSE <<",">>)
         \o <<"\"">> \o Head(o)[1] \o <<"\"", ":">> \o Stringify(Head(o)[2])
         \o StringifyMembers(Tail(o), FALSE)

Stringify(x) ==
  CASE x.t = "string" -> <<"\"">> \o x.v \o <<"\"">>
    [] x.t = "number" -> NatToStr(x.v)
    [] x.t = "NaN" -> <<"null">>
    [] x.t = "null" -> <<"null">>
    [] x.t = "boolean" -> IF x.v THEN <<"true">> ELSE <<"false">>
    [] x.t = "array" -> <<"[">> \o StringifyElems(x.v) \o <<"]">>
    [] x.t = "object" -> <<"{">> \o StringifyMembers(x.v, TRUE) \o <<"}">>
    [] OTHER -> <<"null">>

\* JSON.parse(text) as a recursive-descent parser.  A parse result is
\* [ok, val, rest]; ok = FALSE stands for the SyntaxError.
ParseFail == [ok |-> FALSE, val |-> Undefined, rest |-> <<>>]
ParseOk(val, rest) == [ok |-> TRUE, val |-> val, rest |-> rest]

\* length of the leading run of digits of s
RECURSIVE DigitRun(_)
DigitRun(s) == IF s # <<>> /\ Head(s) \in Digits THEN 1 + DigitRun(Tail(s)) ELSE 0

\* position of the closing quote in s, or 0
RECURSIVE QuotePos(_, _)
QuotePos(s, i) ==
  IF i > Len(s) THEN 0 ELSE IF s[i] = "\"" THEN i ELSE QuotePos(s, i + 1)

\* replace the value of key in the pairs (JSON.parse keeps the place of a
\* repeated key and its last value), or append
SetMember(pairs, key, val) ==
  IF \E i \in 1..Len(pairs) : pairs[i][1] = key
  THEN [i \in 1..Len(pairs) |-> IF pairs[i][1] = key THEN <<key, val>> ELSE pairs[i]]
  ELSE Append(pairs, <<key, val>>)

RECURSIVE ParseValue(_)
RECURSIVE ParseElems(_, _)
RECURSIVE ParseMembers(_, _)

ParseString(s) ==
  \* s starts after the opening quote
  LET q == QuotePos(s, 1)
  IN IF q = 0 THEN ParseFail
     ELSE ParseOk(Str(SubSeq(s, 1, q - 1)), SubSeq(s, q + 1, Len(s)))

ParseElems(s, acc) ==
  LET r == ParseValue(s)
  IN IF ~r.ok THEN ParseFail
     ELSE LET t == TrimStart(r.rest)
          IN IF t = <<>> THEN ParseFail
             ELSE IF Head(t) = "]" THEN ParseOk(Arr(Append(acc, r.val)), Tail(t))
             ELSE IF Head(t) = "," THEN ParseElems(Tail(t), Append(acc, r.val))
             ELSE ParseFail

ParseMembers(s, acc) ==
  LET t == TrimStart(s)
  IN IF t = <<>> \/ Head(t) # "\"" THEN ParseFail
     ELSE LET k == ParseString(Tail(t))
          IN IF ~k.ok THEN ParseFail
             ELSE LET c == TrimStart(k.rest)
                  IN IF c = <<>> \/ Head(c) # ":" THEN ParseFail
                     ELSE LET r == ParseValue(Tail(c))
                          IN IF ~r.ok THEN ParseFail
                             ELSE LET u == TrimStart(r.rest)
                                      acc2 == SetMember(acc, k.val.v, r.val)
                                  IN IF u = <<>> THEN ParseFail
                                     ELSE IF Head(u) = "}" THEN ParseOk(Obj(acc2), Tail(u))
                                     ELSE IF Head(u) = "," THEN ParseMembers(Tail(u), acc2)
                                     ELSE ParseFail

ParseValue(s0) ==
  LET s == TrimStart(s0)
  IN IF s = <<>> THEN ParseFail
     ELSE LET c == Head(s)
              r == Tail(s)
          IN CASE c = "\"" -> ParseString(r)
               [] c \in Digits ->
                    LET n == DigitRun(s)
                    IN IF c = "0" /\ n > 1 THEN ParseFail
                       ELSE ParseOk(Num(DigitsToNat(SubSeq(s, 1, n))), SubSeq(s, n + 1, Len(s)))
               [] c = "null" -> ParseOk(Null, r)
               [] c = "true" -> ParseOk(Bool(TRUE), r)
               [] c = "false" -> ParseOk(Bool(FALSE), r)
               [] c = "[" ->
                    LET t == TrimStart(r)
                    IN IF t # <<>> /\ Head(t) = "]" THEN ParseOk(Arr(<<>>), Tail(t))
                       ELSE ParseElems(r, <<>>)
               [] c = "{" ->
                    LET t == TrimStart(r)
                    IN IF t # <<>> /\ Head(t) = "}" THEN ParseOk(Obj(<<>>), Tail(t))
                       ELSE ParseMembers(r, <<>>)
               [] OTHER -> ParseFail

JSONParse(s) ==
  LET r == ParseValue(s)
  IN IF r.ok /\ TrimStart(r.rest) = <<>> THEN r ELSE ParseFail

\* fault: stored JSON text handed on unparsed
parseJsonField_Raw(val, fallback) ==
  IF val.t \in {"null", "undefined"} THEN fallback ELSE val

\* parseJsonField(val, fallback)
parseJsonField(val, fallback) ==
  IF val.t \in {"null", "undefined"} THEN fallback
  ELSE IF TypeofString(val)
       THEN LET r == JSONParse(val.v)
            IN IF r.ok THEN r.val ELSE fallback
       ELSE val

(***************************************************************************)
(* Normalizers of the read and write paths                                 *)
(***************************************************************************)
\* row.column: undefined when the table has no such column
Col(row, c) == IF c \in DOMAIN row THEN row[c] ELSE Undefined

\* normalizeProduct(row); the result is the object literal, created_at left out
normalizeProduct(row) ==
  LET colors == parseJsonField(Col(row, "colors"), Arr(<<>>))
      features == parseJsonField(Col(row, "features"), Arr(<<>>))
      specs == parseJsonField(Col(row, "specs"), Obj(<<>>))
      tags == parseJsonField(Col(row, "tags"), Arr(<<>>))
  IN Obj(<<
       <<<<"id">>, Col(row, "id")>>,
       <<<<"name">>, Col(row, "name")>>,
       <<<<"brand">>, Or(Col(row, "brand"), EmptyStr)>>,
       <<<<"category">>, Or(Col(row, "category"), EmptyStr)>>,
       <<<<"price">>, toNumber(Col(row, "price"), Num(0))>>,
       <<<<"stock">>, toNumber(Col(row, "stock"), Num(0))>>,
       <<<<"colors">>, IF IsArray(colors) THEN colors ELSE Arr(<<>>)>>,
       <<<<"features">>, IF IsArray(features) THEN features ELSE Arr(<<>>)>>,
       <<<<"specs">>, IF Truthy(specs) /\ TypeofObject(specs) THEN specs ELSE Obj(<<>>)>>,
       <<<<"tags">>, IF IsArray(tags) THEN tags ELSE Arr(<<>>)>>,
       <<<<"active">>, IF Col(row, "active").t = "undefined" THEN Bool(TRUE)
                       ELSE Bool(Truthy(Col(row, "active")))>>,
       <<<<"featured">>, IF Col(row, "featured").t = "undefined" THEN Bool(FALSE)
                         ELSE Bool(Truthy(Col(row, "featured")))>>,
       <<<<"release">>, toDateString(Or(Col(row, "release"), Col(row, "release_date")))>>,
       <<<<"warranty">>, Or(Col(row, "warranty"), EmptyStr)>>,
       <<<<"notes">>, Or(Col(row, "notes"), EmptyStr)>>
     >>)

\* Array.prototype.filter(Boolean)
RECURSIVE FilterTruthy(_)
FilterTruthy(a) ==
  IF a = <<>> THEN <<>>
  ELSE IF Truthy(Head(a)) THEN <<Head(a)>> \o FilterTruthy(Tail(a))
  ELSE FilterTruthy(Tail(a))

\* the map callback of normalizeImageUrls
ImageUrlOf(item) ==
  IF TypeofString(item) THEN Str(Trim(item.v))
  ELSE IF Truthy(item) /\ TypeofString(Get(item, "url")) THEN Str(Trim(Get(item, "url").v))
  ELSE EmptyStr

\* fault: the empty urls are not filtered out
normalizeImageUrls_NoFilter(images) ==
  IF ~IsArray(images) THEN <<>>
  ELSE [i \in 1..Len(images.v) |-> ImageUrlOf(images.v[i])]

\* normalizeImageUrls(images): a sequence of string values
normalizeImageUrls(images) ==
  IF ~IsArray(images) THEN <<>>
  ELSE FilterTruthy([i \in 1..Len(images.v) |-> ImageUrlOf(images.v[i])])

\* a service entry {k, v} is an object; the rejected entry is null
ServiceEntry(k, v) == Obj(<< <<<<"k">>, Str(k)>>, <<<<"v">>, Str(v)>> >>)

\* the map callback of the array branch of normalizeServices
ServiceOfEntry(entry) ==
  IF ~Truthy(entry) \/ ~TypeofObject(entry) THEN Null
  ELSE LET key == Trim(ToStr(Or(Or(Get(entry, "k"), Get(entry, "key")), EmptyStr)))
           value == Coalesce(Get(entry, "v"), Get(entry, "value"))
       IN IF key = <<>> \/ value.t \in {"undefined", "null"} THEN Null
          ELSE ServiceEntry(key, ToStr(value))

\* the map callback of the mapping branch of normalizeServices
ServiceOfPair(pair) ==
  LET key == Trim(pair[1])
  IN IF key = <<>> \/ pair[2].t \in {"undefined", "null"} THEN Null
     ELSE ServiceEntry(key, ToStr(pair[2]))

\* normalizeServices(services): a sequence of {k, v} entries
normalizeServices(services) ==
  IF ~Truthy(services) THEN <<>>
  ELSE IF IsArray(services)
       THEN FilterTruthy([i \in 1..Len(services.v) |-> ServiceOfEntry(services.v[i])])
  ELSE IF TypeofObject(services)
       THEN FilterTruthy([i \in 1..Len(services.v) |-> ServiceOfPair(services.v[i])])
  ELSE <<>>

(***************************************************************************)
(* The store: schema and statements                                        *)
(***************************************************************************)
\* columns of CREATE TABLE products (schema.sql), created_at left out
BaseColumns == <<"id", "name", "brand", "category", "price", "stock", "colors", "features">>

\* optionalColumns of the write handlers, in their order
OptionalColumns == <<"specs", "tags", "active", "featured", "warranty", "notes">>

ReleaseColumns == {"release", "release_date"}

Range(f) == {f[i] : i \in DOMAIN f}

AllColumns == Range(BaseColumns) \cup Range(OptionalColumns) \cup ReleaseColumns

\* DEFAULT clauses of schema.sql and of the ADD COLUMN statements
ColumnDefault(c) ==
  CASE c \in {"price", "stock", "featured"} -> Num(0)
    [] c = "active" -> Num(1)
    [] OTHER -> Null

\* a statement result: err is the thrown error ("" for none), affected is
\* affectedRows, tab the table after the statement
Result(err, affected, tab) == [err |-> err, affected |-> affected, tab |-> tab]

\* a statement the store did not execute: pool.query rejects, the table is as before
StoreError(tab) == Result("ECONNRESET", 0, tab)

\* hasProductColumn(columnName)
hasProductColumn(colset, columnName) == columnName \in colset

\* fault: release_date preferred over release
getReleaseColumnName_PreferDate(colset) ==
  IF hasProductColumn(colset, "release_date") THEN <<"release_date">>
  ELSE IF hasProductColumn(colset, "release") THEN <<"release">>
  ELSE <<>>

\* getReleaseColumnName(): <<>> stands for null
getReleaseColumnName(colset) ==
  IF hasProductColumn(colset, "release") THEN <<"release">>
  ELSE IF hasProductColumn(colset, "release_date") THEN <<"release_date">>
  ELSE <<>>

\* the optional columns the write handlers push, in order
RECURSIVE PresentOptional(_, _)
PresentOptional(colset, cols) ==
  IF cols = <<>> THEN <<>>
  ELSE (IF hasProductColumn(colset, Head(cols)) THEN <<Head(cols)>> ELSE <<>>)
         \o PresentOptional(colset, Tail(cols))

\* fault: the INSERT names every optional column, probed or not
UpsertColumns_All(colset) == BaseColumns \o OptionalColumns \o <<"release">>

\* columns of the INSERT of POST /api/products
UpsertColumns(colset) ==
  BaseColumns \o PresentOptional(colset, OptionalColumns) \o getReleaseColumnName(colset)

\* fault: the release column inserted but not overwritten on conflict
UpsertUpdateColumns_NoRelease(colset) ==
  Tail(BaseColumns) \o PresentOptional(colset, OptionalColumns)

\* updateColumns of POST /api/products
UpsertUpdateColumns(colset) ==
  Tail(BaseColumns) \o PresentOptional(colset, OptionalColumns) \o getReleaseColumnName(colset)

\* setColumns of PUT /api/products/:id
UpdateSetColumns(colset) ==
  Tail(BaseColumns) \o PresentOptional(colset, OptionalColumns) \o getReleaseColumnName(colset)

\* fault: active taken as p.active ? 1 : 0, so that an omitted active
\* switches the product off
WritePayload_ActiveOff(p, nameVal) ==
  [c \in (AllColumns \ {"id", "release_date"}) |->
     CASE c = "name" -> nameVal
       [] c = "brand" -> Or(Get(p, "brand"), Null)
       [] c = "category" -> Or(Get(p, "category"), Null)
       [] c = "price" -> toNumber(Get(p, "price"), Num(0))
       [] c = "stock" -> toNumber(Get(p, "stock"), Num(0))
       [] c = "colors" -> Str(Stringify(normalizeArray(Get(p, "colors"))))
       [] c = "features" -> Str(Stringify(normalizeArray(Get(p, "features"))))
       [] c = "specs" -> Str(Stringify(IF Truthy(Get(p, "specs")) /\ TypeofObject(Get(p, "specs"))
                                       THEN Get(p, "specs") ELSE Obj(<<>>)))
       [] c = "tags" -> Str(Stringify(normalizeArray(Get(p, "tags"))))
       [] c = "active" -> IF Get(p, "active").t = "undefined" THEN Num(0)
                          ELSE IF Truthy(Get(p, "active")) THEN Num(1) ELSE Num(0)
       [] c = "featured" -> IF Truthy(Get(p, "featured")) THEN Num(1) ELSE Num(0)
       [] c = "release" -> IF Truthy(Get(p, "release"))
                           THEN Str(Slice0(ToStr(Get(p, "release")), 10)) ELSE Null
       [] c = "warranty" -> IF Truthy(Get(p, "warranty")) THEN Str(ToStr(Get(p, "warranty"))) ELSE Null
       [] c = "notes" -> Or(Get(p, "notes"), Null)]

\* the payload object of the write handlers, keyed by payload field; nameVal
\* is the trimmed name (POST) or p.name || null (PUT)
WritePayload(p, nameVal) ==
  [c \in (AllColumns \ {"id", "release_date"}) |->
     CASE c = "name" -> nameVal
       [] c = "brand" -> Or(Get(p, "brand"), Null)
       [] c = "category" -> Or(Get(p, "category"), Null)
       [] c = "price" -> toNumber(Get(p, "price"), Num(0))
       [] c = "stock" -> toNumber(Get(p, "stock"), Num(0))
       [] c = "colors" -> Str(Stringify(normalizeArray(Get(p, "colors"))))
       [] c = "features" -> Str(Stringify(normalizeArray(Get(p, "features"))))
       [] c = "specs" -> Str(Stringify(IF Truthy(Get(p, "specs")) /\ TypeofObject(Get(p, "specs"))
                                       THEN Get(p, "specs") ELSE Obj(<<>>)))
       [] c = "tags" -> Str(Stringify(normalizeArray(Get(p, "tags"))))
       [] c = "active" -> IF Get(p, "active").t = "undefined" THEN Num(1)
                          ELSE IF Truthy(Get(p, "active")) THEN Num(1) ELSE Num(0)
       [] c = "featured" -> IF Truthy(Get(p, "featured")) THEN Num(1) ELSE Num(0)
       [] c = "release" -> IF Truthy(Get(p, "release"))
                           THEN Str(Slice0(ToStr(Get(p, "release")), 10)) ELSE Null
       [] c = "warranty" -> IF Truthy(Get(p, "warranty")) THEN Str(ToStr(Get(p, "warranty"))) ELSE Null
       [] c = "notes" -> Or(Get(p, "notes"), Null)]

\* the value bound to a statement column: the release column, under either
\* name, takes payload.release
ValueFor(payload, id, c) ==
  IF c = "id" THEN Str(id)
  ELSE IF c \in ReleaseColumns THEN payload["release"]
  ELSE payload[c]

\* fault: on conflict a NULL value keeps the stored one (a patch, not an
\* overwrite)
ExecUpsert_Patch(tabcols, tab, columns, updateColumns, payload, id) ==
  IF ~(Range(columns) \subseteq tabcols) THEN Result("ER_BAD_FIELD_ERROR", 0, tab)
  ELSE IF \E r \in tab : r["id"] = Str(id)
  THEN LET old == CHOOSE r \in tab : r["id"] = Str(id)
           new == [c \in DOMAIN old |->
                     IF c \in Range(updateColumns) /\ ValueFor(payload, id, c).t # "null"
                     THEN ValueFor(payload, id, c) ELSE old[c]]
       IN Result("", 1, (tab \ {old}) \cup {new})
  ELSE LET new == [c \in tabcols |->
                     IF c \in Range(columns) THEN ValueFor(payload, id, c) ELSE ColumnDefault(c)]
       IN Result("", 1, tab \cup {new})

\* INSERT INTO products (columns) VALUES (...) ON DUPLICATE KEY UPDATE
\* c = VALUES(c) for c in updateColumns, on a table with columns tabcols
ExecUpsert(tabcols, tab, columns, updateColumns, payload, id) ==
  IF ~(Range(columns) \subseteq tabcols) THEN Result("ER_BAD_FIELD_ERROR", 0, tab)
  ELSE IF \E r \in tab : r["id"] = Str(id)
  THEN LET old == CHOOSE r \in tab : r["id"] = Str(id)
           new == [c \in DOMAIN old |->
                     IF c \in Range(updateColumns) THEN ValueFor(payload, id, c) ELSE old[c]]
       IN Result("", 1, (tab \ {old}) \cup {new})
  ELSE LET new == [c \in tabcols |->
                     IF c \in Range(columns) THEN ValueFor(payload, id, c) ELSE ColumnDefault(c)]
       IN Result("", 1, tab \cup {new})

\* fault: the UPDATE creates the row it does not find
ExecUpdate_Upsert(tabcols, tab, setColumns, payload, id) ==
  IF ~(Range(setColumns) \subseteq tabcols) THEN Result("ER_BAD_FIELD_ERROR", 0, tab)
  ELSE LET new == [c \in tabcols |->
                     IF c \in Range(setColumns) \cup {"id"} THEN ValueFor(payload, id, c)
                     ELSE ColumnDefault(c)]
       IN Result("", 1, {r \in tab : r["id"] # Str(id)} \cup {new})

\* UPDATE products SET c = ? ... WHERE id = ?; name is NOT NULL.  affectedRows
\* counts the matched rows (the driver connects with FOUND_ROWS)
ExecUpdate(tabcols, tab, setColumns, payload, id) ==
  IF ~(Range(setColumns) \subseteq tabcols) THEN Result("ER_BAD_FIELD_ERROR", 0, tab)
  ELSE IF ~\E r \in tab : r["id"] = Str(id) THEN Result("", 0, tab)
  ELSE IF payload["name"].t = "null" THEN Result("ER_BAD_NULL_ERROR", 0, tab)
  ELSE LET old == CHOOSE r \in tab : r["id"] = Str(id)
           new == [c \in DOMAIN old |->
                     IF c \in Range(setColumns) THEN ValueFor(payload, id, c) ELSE old[c]]
       IN Result("", 1, (tab \ {old}) \cup {new})

\* fault: the DELETE of a replacement removes nothing
DeleteByProduct_Keep(tab, id) == tab

\* DELETE FROM <child table> WHERE product_id = ?
DeleteByProduct(tab, id) == {r \in tab : r.product_id # Str(id)}

\* the integer a string parameter compares as against an INT column
ParamToInt(s) == StrToNumber(s)

\* fault: WHERE id = ? without the product_id condition
Scoped_AnyProduct(tab, childId, id) ==
  {r \in tab : Num(r.id) = ParamToInt(childId)}

\* rows matched by WHERE id = ? AND product_id = ?
Scoped(tab, childId, id) ==
  {r \in tab : Num(r.id) = ParamToInt(childId) /\ r.product_id = Str(id)}

\* fault: the foreign key not enforced (a storage engine without them)
ForeignKeyHolds_Unchecked(tab, id) == TRUE

\* FOREIGN KEY (product_id) REFERENCES products(id)
ForeignKeyHolds(tab, id) == \E r \in tab : r["id"] = Str(id)

\* rows of a child table for a product in ascending id order
RECURSIVE OrderById(_)
OrderById(rows) ==
  IF rows = {} THEN <<>>
  ELSE LET m == CHOOSE r \in rows : \A q \in rows : r.id <= q.id
       IN <<m>> \o OrderById(rows \ {m})

\* SELECT ... FROM <child table> WHERE product_id = ? ORDER BY id ASC
SelectByProduct(tab, id) == OrderById({r \in tab : r.product_id = Str(id)})

(***************************************************************************)
(* State                                                                   *)
(***************************************************************************)
VARIABLES
  tableColumns,       \* columns the products table really has
  productsColumnSet,  \* the cached column set of the process
  products,           \* rows of products: functions from column to value
  product_images,     \* rows [id, product_id, url]
  product_services,   \* rows [id, product_id, k, v]
  product_reviews,    \* rows [id, product_id, name, rating, comment]
  autoInc,            \* next AUTO_INCREMENT value of each child table
  req,                \* the request each handler slot is running
  nreq,               \* number of requests received so far
  lastWriter,         \* history: slot whose statement last wrote a products row
  boot                \* start(): its position, the ADD COLUMNs left, their history

schemaVars == <<tableColumns, productsColumnSet, boot>>
storeVars == <<products, product_images, product_services, product_reviews, autoInc>>
vars == <<tableColumns, productsColumnSet, products, product_images, product_services,
          product_reviews, autoInc, req, nreq, lastWriter, boot>>

\* bound on the number of requests of one behaviour
MaxRequests == 2

\* handler slots of the sequential and of the concurrent specification
SeqSlots == {1}
ConcSlots == {1, 2}

Snapshot ==
  [products |-> products, images |-> product_images,
   services |-> product_services, reviews |-> product_reviews]

\* what a slot remembers of the request it ran before the current one
Summary(r) == [kind |-> r.kind, id |-> r.id, child |-> r.child, body |-> r.body, status |-> r.status]

NoSummary == [kind |-> "none", id |-> <<>>, child |-> <<>>, body |-> Undefined, status |-> 0]

EmptyDb == [products |-> {}, images |-> {}, services |-> {}, reviews |-> {}]

\* an idle slot
NoReq ==
  [kind |-> "none", pc |-> "idle", id |-> <<>>, child |-> <<>>, body |-> Undefined,
   todo |-> <<>>, stmt |-> <<>>, upd |-> <<>>, status |-> 0, out |-> Undefined,
   nstmt |-> 0, errs |-> 0, pre |-> EmptyDb, prev |-> NoSummary]

\* the tests of ensureProductsColumns in their order: the column name tested
\* against the probed set and the column its ALTER TABLE ... ADD COLUMN adds
AddCandidates ==
  << [name |-> "specs", col |-> "specs"],
     [name |-> "tags", col |-> "tags"],
     [name |-> "active", col |-> "active"],
     [name |-> "featured", col |-> "featured"],
     [name |-> "release_date", col |-> "release"],
     [name |-> "warranty", col |-> "warranty"],
     [name |-> "notes", col |-> "notes"] >>

RECURSIVE MissingFrom(_, _)
MissingFrom(cands, existing) ==
  IF cands = <<>> THEN <<>>
  ELSE (IF Head(cands).name \notin existing THEN <<Head(cands)>> ELSE <<>>)
         \o MissingFrom(Tail(cands), existing)

\* the list missing of ensureProductsColumns for the probed set existing
MissingColumns(existing) == MissingFrom(AddCandidates, existing)

\* start() of a process as it begins
Starting ==
  [pc |-> "probe", probed |-> {}, missing |-> <<>>, attempted |-> {}, failed |-> {}]

\* start() after app.listen of a process that probed cols and whose ADD
\* COLUMN statements, if any, all failed: the cached set is the table's
Started(cols) ==
  [pc |-> "listening", probed |-> cols, missing |-> <<>>,
   attempted |-> {MissingColumns(cols)[i].col : i \in 1..Len(MissingColumns(cols))},
   failed |-> {MissingColumns(cols)[i].col : i \in 1..Len(MissingColumns(cols))}]

\* fault: the server listens while start() still runs
Free_AnyTime(s) == req[s].pc \in {"idle", "done"} /\ nreq < MaxRequests

\* a slot can take a request: the server listens and the slot is not busy
Free(s) == boot.pc = "listening" /\ req[s].pc \in {"idle", "done"} /\ nreq < MaxRequests

\* a request as received: req.params.id, a child id parameter, req.body || {}
NewReq(s, kind, id, child, body) ==
  [kind |-> kind, pc |-> "new", id |-> id, child |-> child, body |-> Or(body, Obj(<<>>)),
   todo |-> <<>>, stmt |-> <<>>, upd |-> <<>>, status |-> 0, out |-> Undefined,
   nstmt |-> 0, errs |-> 0, pre |-> Snapshot, prev |-> Summary(req[s])]

\* res.status(status).json(out)
Respond(r, status, out) == [r EXCEPT !.pc = "done", !.status = status, !.out = out, !.todo = <<>>]

Prop(name, val) == <<<<name>>, val>>

ErrorBody(msg) == Obj(<<Prop("error", Str(<<msg>>))>>)
OkBody == Obj(<<Prop("ok", Bool(TRUE))>>)

\* the catch block of every handler
ApiError(r) == Respond(r, 500, ErrorBody("api error"))

NotFound(r) == Respond(r, 404, ErrorBody("not found"))

\* history: the request issued one more statement, and whether the store threw
Issued(r, threw) == [r EXCEPT !.nstmt = @ + 1, !.errs = IF threw THEN @ + 1 ELSE @]

\* fault: the error of an awaited statement swallowed, the handler goes on
Await_Swallow(r, threw, next) == next

\* await q(...) inside the try block of a handler: a thrown error ends the
\* handler in its catch block, otherwise the handler goes on with next
Await(r, threw, next) == IF threw THEN ApiError(r) ELSE next

(***************************************************************************)
(* POST /api/products and PUT /api/products/:id                            *)
(***************************************************************************)
\* fault: the required fields tested without the trim
RequiredField_NoTrim(p, name) == ToStr(Or(Get(p, name), EmptyStr))

\* (p.id || '').toString().trim() and the same for name
RequiredField(p, name) == Trim(ToStr(Or(Get(p, name), EmptyStr)))

\* await replaceProductImages(id, p.images), up to its DELETE
EnterReplaceImages(r) ==
  [r EXCEPT !.pc = "imgDelete", !.todo = normalizeImageUrls(Get(r.body, "images"))]

\* await replaceProductServices(id, p.services), up to its DELETE
EnterReplaceServices(r) ==
  [r EXCEPT !.pc = "svcDelete", !.todo = normalizeServices(Get(r.body, "services"))]

\* the response after both replacements
WriteDone(r) ==
  IF r.kind = "postProduct"
  THEN Respond(r, 201, Obj(<<Prop("ok", Bool(TRUE)), Prop("id", Str(r.id))>>))
  ELSE Respond(r, 200, OkBody)

\* app.post('/api/products'): validation, then the upsert statement; fail says
\* that the store rejects the statement (connection lost, server gone)
PostProduct(s, body, fail) ==
  /\ Free(s)
  /\ nreq' = nreq + 1
  /\ LET r0 == NewReq(s, "postProduct", <<>>, <<>>, body)
         p == r0.body
         id == RequiredField(p, "id")
         name == RequiredField(p, "name")
     IN IF id = <<>> \/ name = <<>>
        THEN /\ req' = [req EXCEPT ![s] =
                          Respond(r0, 400, ErrorBody("id and name are required"))]
             /\ UNCHANGED <<storeVars, lastWriter>>
        ELSE LET payload == WritePayload(p, Str(name))
                 columns == UpsertColumns(productsColumnSet)
                 updateColumns == UpsertUpdateColumns(productsColumnSet)
                 res == IF fail THEN StoreError(products)
                        ELSE ExecUpsert(tableColumns, products, columns,
                                        updateColumns, payload, id)
                 r1 == Issued([r0 EXCEPT !.id = id, !.stmt = columns, !.upd = updateColumns],
                              res.err # "")
             IN /\ products' = res.tab
                /\ lastWriter' = IF res.err = "" THEN s ELSE lastWriter
                /\ req' = [req EXCEPT ![s] = Await(r1, res.err # "", EnterReplaceImages(r1))]
                /\ UNCHANGED <<product_images, product_services, product_reviews, autoInc>>
  /\ UNCHANGED schemaVars

\* app.put('/api/products/:id'): the UPDATE statement and the 404 test
PutProduct(s, id, body, fail) ==
  /\ Free(s)
  /\ nreq' = nreq + 1
  /\ LET r0 == NewReq(s, "putProduct", id, <<>>, body)
         p == r0.body
         payload == WritePayload(p, Or(Get(p, "name"), Null))
         setColumns == UpdateSetColumns(productsColumnSet)
         res == IF fail THEN StoreError(products)
                ELSE ExecUpdate(tableColumns, products, setColumns, payload, id)
         r1 == Issued([r0 EXCEPT !.stmt = setColumns], res.err # "")
     IN /\ products' = res.tab
        /\ lastWriter' = IF res.err = "" /\ res.affected > 0 THEN s ELSE lastWriter
        /\ req' = [req EXCEPT ![s] =
                     Await(r1, res.err # "",
                           IF res.affected = 0 THEN NotFound(r1) ELSE EnterReplaceImages(r1))]
  /\ UNCHANGED <<product_images, product_services, product_reviews, autoInc>>
  /\ UNCHANGED schemaVars

\* fault: the DELETE of replaceProductImages without its WHERE clause
ReplaceImagesDelete_AllProducts(s, fail) ==
  /\ req[s].pc = "imgDelete"
  /\ product_images' = IF fail THEN product_images
                       ELSE {}
  /\ LET r1 == Issued(req[s], fail)
     IN req' = [req EXCEPT ![s] =
                  Await(r1, fail, IF r1.todo = <<>> THEN EnterReplaceServices(r1)
                                  ELSE [r1 EXCEPT !.pc = "imgInsert"])]
  /\ UNCHANGED <<products, product_services, product_reviews, autoInc, nreq>>
  /\ UNCHANGED <<schemaVars, lastWriter>>

\* replaceProductImages: DELETE FROM product_images WHERE product_id = ?
ReplaceImagesDelete(s, fail) ==
  /\ req[s].pc = "imgDelete"
  /\ product_images' = IF fail THEN product_images
                       ELSE DeleteByProduct(product_images, req[s].id)
  /\ LET r1 == Issued(req[s], fail)
     IN req' = [req EXCEPT ![s] =
                  Await(r1, fail, IF r1.todo = <<>> THEN EnterReplaceServices(r1)
                                  ELSE [r1 EXCEPT !.pc = "imgInsert"])]
  /\ UNCHANGED <<products, product_services, product_reviews, autoInc, nreq>>
  /\ UNCHANGED <<schemaVars, lastWriter>>

\* fault: a rejected INSERT puts back the images the request found (as a
\* transaction around the replacement would)
ReplaceImagesInsert_Rollback(s, fail) ==
  /\ req[s].pc = "imgInsert"
  /\ LET ok == ~fail /\ ForeignKeyHolds(products, req[s].id)
         r1 == [Issued(req[s], ~ok) EXCEPT !.todo = Tail(@)]
         row == [id |-> autoInc.images, product_id |-> Str(req[s].id), url |-> Head(req[s].todo)]
     IN /\ product_images' =
             IF ok THEN product_images \cup {row}
             ELSE DeleteByProduct(product_images, req[s].id)
                    \cup {old \in req[s].pre.images : old.product_id = Str(req[s].id)}
        /\ req' = [req EXCEPT ![s] =
                     Await(r1, ~ok, IF r1.todo = <<>> THEN EnterReplaceServices(r1) ELSE r1)]
  /\ autoInc' = IF fail THEN autoInc ELSE [autoInc EXCEPT !.images = @ + 1]
  /\ UNCHANGED <<products, product_services, product_reviews, nreq>>
  /\ UNCHANGED <<schemaVars, lastWriter>>

\* replaceProductImages: one INSERT INTO product_images (product_id, url)
ReplaceImagesInsert(s, fail) ==
  /\ req[s].pc = "imgInsert"
  /\ LET ok == ~fail /\ ForeignKeyHolds(products, req[s].id)
         r1 == [Issued(req[s], ~ok) EXCEPT !.todo = Tail(@)]
         row == [id |-> autoInc.images, product_id |-> Str(req[s].id), url |-> Head(req[s].todo)]
     IN /\ product_images' = IF ok THEN product_images \cup {row} ELSE product_images
        /\ req' = [req EXCEPT ![s] =
                     Await(r1, ~ok, IF r1.todo = <<>> THEN EnterReplaceServices(r1) ELSE r1)]
  /\ autoInc' = IF fail THEN autoInc ELSE [autoInc EXCEPT !.images = @ + 1]
  /\ UNCHANGED <<products, product_services, product_reviews, nreq>>
  /\ UNCHANGED <<schemaVars, lastWriter>>

\* fault: the replacement clears the reviews of the product as well
ReplaceServicesDelete_Reviews(s, fail) ==
  /\ req[s].pc = "svcDelete"
  /\ product_services' = IF fail THEN product_services
                         ELSE DeleteByProduct(product_services, req[s].id)
  /\ product_reviews' = IF fail THEN product_reviews
                        ELSE DeleteByProduct(product_reviews, req[s].id)
  /\ LET r1 == Issued(req[s], fail)
     IN req' = [req EXCEPT ![s] =
                  Await(r1, fail, IF r1.todo = <<>> THEN WriteDone(r1)
                                  ELSE [r1 EXCEPT !.pc = "svcInsert"])]
  /\ UNCHANGED <<products, product_images, autoInc, nreq>>
  /\ UNCHANGED <<schemaVars, lastWriter>>

\* replaceProductServices: DELETE FROM product_services WHERE product_id = ?
ReplaceServicesDelete(s, fail) ==
  /\ req[s].pc = "svcDelete"
  /\ product_services' = IF fail THEN product_services
                         ELSE DeleteByProduct(product_services, req[s].id)
  /\ LET r1 == Issued(req[s], fail)
     IN req' = [req EXCEPT ![s] =
                  Await(r1, fail, IF r1.todo = <<>> THEN WriteDone(r1)
                                  ELSE [r1 EXCEPT !.pc = "svcInsert"])]
  /\ UNCHANGED <<products, product_images, product_reviews, autoInc, nreq>>
  /\ UNCHANGED <<schemaVars, lastWriter>>

\* replaceProductServices: one INSERT INTO product_services (product_id, k, v)
ReplaceServicesInsert(s, fail) ==
  /\ req[s].pc = "svcInsert"
  /\ LET ok == ~fail /\ ForeignKeyHolds(products, req[s].id)
         r1 == [Issued(req[s], ~ok) EXCEPT !.todo = Tail(@)]
         entry == Head(req[s].todo)
         row == [id |-> autoInc.services, product_id |-> Str(req[s].id),
                 k |-> Get(entry, "k"), v |-> Get(entry, "v")]
     IN /\ product_services' = IF ok THEN product_services \cup {row} ELSE product_services
        /\ req' = [req EXCEPT ![s] =
                     Await(r1, ~ok, IF r1.todo = <<>> THEN WriteDone(r1) ELSE r1)]
  /\ autoInc' = IF fail THEN autoInc ELSE [autoInc EXCEPT !.services = @ + 1]
  /\ UNCHANGED <<products, product_images, product_reviews, nreq>>
  /\ UNCHANGED <<schemaVars, lastWriter>>

(***************************************************************************)
(* GET /api/products/:id and DELETE /api/products/:id                      *)
(***************************************************************************)
\* fault: the first row of a key wins
RECURSIVE ServicesMapping_First(_, _)
ServicesMapping_First(rows, acc) ==
  IF rows = <<>> THEN Obj(acc)
  ELSE LET row == Head(rows)
       IN IF Truthy(row.k) /\ ~\E i \in 1..Len(acc) : acc[i][1] = ToStr(row.k)
          THEN ServicesMapping_First(Tail(rows), Append(acc, <<ToStr(row.k), maybeNumber(row.v)>>))
          ELSE ServicesMapping_First(Tail(rows), acc)

\* the services mapping of loadProductDetails: later rows overwrite earlier
\* ones of the same key, rows with a falsy key are skipped
RECURSIVE ServicesMapping(_, _)
ServicesMapping(rows, acc) ==
  IF rows = <<>> THEN Obj(acc)
  ELSE LET row == Head(rows)
       IN IF Truthy(row.k)
          THEN ServicesMapping(Tail(rows), SetMember(acc, ToStr(row.k), maybeNumber(row.v)))
          ELSE ServicesMapping(Tail(rows), acc)

\* one element of the reviews array of loadProductDetails (dates left out)
ReviewOf(row) ==
  Obj(<<Prop("id", Num(row.id)), Prop("name", row.name),
        Prop("rating", toNumber(row.rating, Num(0))),
        Prop("comment", Or(row.comment, EmptyStr))>>)

\* reviews of a product, newest first (created_at grows with the id)
RECURSIVE Reverse(_)
Reverse(q) == IF q = <<>> THEN <<>> ELSE Reverse(Tail(q)) \o <<Head(q)>>

\* app.get('/api/products/:id'): SELECT the row, 404 or normalizeProduct
GetProduct(s, id) ==
  /\ Free(s)
  /\ nreq' = nreq + 1
  /\ LET r0 == [NewReq(s, "getProduct", id, <<>>, Undefined) EXCEPT !.nstmt = 1]
         rows == {r \in products : r["id"] = Str(id)}
     IN req' = [req EXCEPT ![s] =
                  IF rows = {} THEN NotFound(r0)
                  ELSE [r0 EXCEPT !.pc = "loadImages",
                                  !.out = normalizeProduct(CHOOSE r \in rows : TRUE)]]
  /\ UNCHANGED storeVars
  /\ UNCHANGED <<schemaVars, lastWriter>>

\* loadProductDetails: SELECT url FROM product_images ... ORDER BY id ASC
LoadImages(s) ==
  /\ req[s].pc = "loadImages"
  /\ LET rows == SelectByProduct(product_images, req[s].id)
         images == Arr([i \in 1..Len(rows) |-> rows[i].url])
     IN req' = [req EXCEPT ![s] =
                  [@ EXCEPT !.pc = "loadServices", !.nstmt = @ + 1,
                            !.out = Obj(@.v \o <<Prop("images", images)>>)]]
  /\ UNCHANGED <<storeVars, nreq>>
  /\ UNCHANGED <<schemaVars, lastWriter>>

\* loadProductDetails: SELECT k, v FROM product_services ... ORDER BY id ASC
LoadServices(s) ==
  /\ req[s].pc = "loadServices"
  /\ LET rows == SelectByProduct(product_services, req[s].id)
     IN req' = [req EXCEPT ![s] =
                  [@ EXCEPT !.pc = "loadReviews", !.nstmt = @ + 1,
                            !.out = Obj(@.v \o <<Prop("services", ServicesMapping(rows, <<>>))>>)]]
  /\ UNCHANGED <<storeVars, nreq>>
  /\ UNCHANGED <<schemaVars, lastWriter>>

\* loadProductDetails: SELECT ... FROM product_reviews, then res.json(product)
LoadReviews(s) ==
  /\ req[s].pc = "loadReviews"
  /\ LET rows == Reverse(SelectByProduct(product_reviews, req[s].id))
         reviews == Arr([i \in 1..Len(rows) |-> ReviewOf(rows[i])])
         r1 == [req[s] EXCEPT !.nstmt = @ + 1]
     IN req' = [req EXCEPT ![s] =
                  Respond(r1, 200, Obj(r1.out.v \o <<Prop("reviews", reviews)>>))]
  /\ UNCHANGED <<storeVars, nreq>>
  /\ UNCHANGED <<schemaVars, lastWriter>>

\* fault: the foreign keys declared without ON DELETE CASCADE (and unchecked)
ExecDeleteProduct_NoCascade(db, id) ==
  [db EXCEPT !.products = {r \in db.products : r["id"] # Str(id)}]

\* DELETE FROM products WHERE id = ? with the ON DELETE CASCADE of the three
\* child tables
ExecDeleteProduct(db, id) ==
  [products |-> {r \in db.products : r["id"] # Str(id)},
   images |-> DeleteByProduct(db.images, id),
   services |-> DeleteByProduct(db.services, id),
   reviews |-> DeleteByProduct(db.reviews, id)]

\* app.delete('/api/products/:id')
DeleteProduct(s, id) ==
  /\ Free(s)
  /\ nreq' = nreq + 1
  /\ LET r0 == [NewReq(s, "deleteProduct", id, <<>>, Undefined) EXCEPT !.nstmt = 1]
         affected == Cardinality({r \in products : r["id"] = Str(id)})
         db == ExecDeleteProduct(Snapshot, id)
     IN /\ products' = db.products
        /\ product_images' = db.images
        /\ product_services' = db.services
        /\ product_reviews' = db.reviews
        /\ req' = [req EXCEPT ![s] =
                     IF affected = 0 THEN NotFound(r0) ELSE Respond(r0, 200, OkBody)]
  /\ UNCHANGED autoInc
  /\ UNCHANGED <<schemaVars, lastWriter>>

(***************************************************************************)
(* Single-item endpoints of the child collections                          *)
(***************************************************************************)
\* app.post('/api/products/:id/images')
PostImage(s, id, body) ==
  /\ Free(s)
  /\ nreq' = nreq + 1
  /\ LET r0 == NewReq(s, "postImage", id, <<>>, body)
         url == Get(r0.body, "url")
     IN IF ~Truthy(url)
        THEN /\ req' = [req EXCEPT ![s] = Respond(r0, 400, ErrorBody("url required"))]
             /\ UNCHANGED <<product_images, autoInc>>
        ELSE LET r1 == [r0 EXCEPT !.nstmt = 1]
                 ok == ForeignKeyHolds(products, id)
                 row == [id |-> autoInc.images, product_id |-> Str(id), url |-> Str(ToStr(url))]
             IN /\ product_images' = IF ok THEN product_images \cup {row} ELSE product_images
                /\ autoInc' = [autoInc EXCEPT !.images = @ + 1]
                /\ req' = [req EXCEPT ![s] =
                             IF ~ok THEN ApiError(r1)
                             ELSE Respond(r1, 201, Obj(<<Prop("ok", Bool(TRUE)),
                                                         Prop("image_id", Num(row.id))>>))]
  /\ UNCHANGED <<products, product_services, product_reviews>>
  /\ UNCHANGED <<schemaVars, lastWriter>>

\* app.delete('/api/products/:id/images/:imageId')
DeleteImage(s, id, imageId) ==
  /\ Free(s)
  /\ nreq' = nreq + 1
  /\ LET r0 == [NewReq(s, "deleteImage", id, imageId, Undefined) EXCEPT !.nstmt = 1]
         hit == Scoped(product_images, imageId, id)
     IN /\ product_images' = product_images \ hit
        /\ req' = [req EXCEPT ![s] =
                     IF hit = {} THEN NotFound(r0) ELSE Respond(r0, 200, OkBody)]
  /\ UNCHANGED <<products, product_services, product_reviews, autoInc>>
  /\ UNCHANGED <<schemaVars, lastWriter>>

\* app.post('/api/products/:id/services')
PostService(s, id, body) ==
  /\ Free(s)
  /\ nreq' = nreq + 1
  /\ LET r0 == NewReq(s, "postService", id, <<>>, body)
         k == Get(r0.body, "k")
         v == Get(r0.body, "v")
     IN IF ~Truthy(k) \/ v.t = "undefined"
        THEN /\ req' = [req EXCEPT ![s] = Respond(r0, 400, ErrorBody("k and v required"))]
             /\ UNCHANGED <<product_services, autoInc>>
        ELSE LET r1 == [r0 EXCEPT !.nstmt = 1]
                 ok == ForeignKeyHolds(products, id)
                 row == [id |-> autoInc.services, product_id |-> Str(id),
                         k |-> Str(ToStr(k)), v |-> Str(ToStr(v))]
             IN /\ product_services' = IF ok THEN product_services \cup {row} ELSE product_services
                /\ autoInc' = [autoInc EXCEPT !.services = @ + 1]
                /\ req' = [req EXCEPT ![s] =
                             IF ~ok THEN ApiError(r1)
                             ELSE Respond(r1, 201, Obj(<<Prop("ok", Bool(TRUE)),
                                                         Prop("service_id", Num(row.id))>>))]
  /\ UNCHANGED <<products, product_images, product_reviews>>
  /\ UNCHANGED <<schemaVars, lastWriter>>

\* app.put('/api/products/:id/services/:serviceId')
PutService(s, id, serviceId, body) ==
  /\ Free(s)
  /\ nreq' = nreq + 1
  /\ LET r0 == [NewReq(s, "putService", id, serviceId, body) EXCEPT !.nstmt = 1]
         k == Or(Get(r0.body, "k"), Null)
         v == IF Get(r0.body, "v").t # "undefined" THEN Str(ToStr(Get(r0.body, "v"))) ELSE Null
         hit == Scoped(product_services, serviceId, id)
     IN /\ product_services' =
             (product_services \ hit) \cup {[r EXCEPT !.k = k, !.v = v] : r \in hit}
        /\ req' = [req EXCEPT ![s] =
                     IF hit = {} THEN NotFound(r0) ELSE Respond(r0, 200, OkBody)]
  /\ UNCHANGED <<products, product_images, product_reviews, autoInc>>
  /\ UNCHANGED <<schemaVars, lastWriter>>

\* app.delete('/api/products/:id/services/:serviceId')
DeleteService(s, id, serviceId) ==
  /\ Free(s)
  /\ nreq' = nreq + 1
  /\ LET r0 == [NewReq(s, "deleteService", id, serviceId, Undefined) EXCEPT !.nstmt = 1]
         hit == Scoped(product_services, serviceId, id)
     IN /\ product_services' = product_services \ hit
        /\ req' = [req EXCEPT ![s] =
                     IF hit = {} THEN NotFound(r0) ELSE Respond(r0, 200, OkBody)]
  /\ UNCHANGED <<products, product_images, product_reviews, autoInc>>
  /\ UNCHANGED <<schemaVars, lastWriter>>

\* fault: only a missing rating rejected, a rating of 0 let through
ReviewInvalid_ZeroOk(name, rating) == ~Truthy(name) \/ rating.t \in {"undefined", "null"}

\* if (!name || !rating)
ReviewInvalid(name, rating) == ~Truthy(name) \/ ~Truthy(rating)

\* app.post('/api/products/:id/reviews')
PostReview(s, id, body) ==
  /\ Free(s)
  /\ nreq' = nreq + 1
  /\ LET r0 == NewReq(s, "postReview", id, <<>>, body)
         name == Get(r0.body, "name")
         rating == Get(r0.body, "rating")
     IN IF ReviewInvalid(name, rating)
        THEN /\ req' = [req EXCEPT ![s] = Respond(r0, 400, ErrorBody("name and rating required"))]
             /\ UNCHANGED <<product_reviews, autoInc>>
        ELSE LET r1 == [r0 EXCEPT !.nstmt = 1]
                 ok == ForeignKeyHolds(products, id)
                 row == [id |-> autoInc.reviews, product_id |-> Str(id),
                         name |-> Str(ToStr(name)), rating |-> toNumber(rating, Num(0)),
                         comment |-> Or(Get(r0.body, "comment"), Null)]
             IN /\ product_reviews' = IF ok THEN product_reviews \cup {row} ELSE product_reviews
                /\ autoInc' = [autoInc EXCEPT !.reviews = @ + 1]
                /\ req' = [req EXCEPT ![s] =
                             IF ~ok THEN ApiError(r1)
                             ELSE Respond(r1, 201, Obj(<<Prop("ok", Bool(TRUE)),
                                                         Prop("review_id", Num(row.id))>>))]
  /\ UNCHANGED <<products, product_images, product_services>>
  /\ UNCHANGED <<schemaVars, lastWriter>>

\* app.delete('/api/products/:id/reviews/:reviewId')
DeleteReview(s, id, reviewId) ==
  /\ Free(s)
  /\ nreq' = nreq + 1
  /\ LET r0 == [NewReq(s, "deleteReview", id, reviewId, Undefined) EXCEPT !.nstmt = 1]
         hit == Scoped(product_reviews, reviewId, id)
     IN /\ product_reviews' = product_reviews \ hit
        /\ req' = [req EXCEPT ![s] =
                     IF hit = {} THEN NotFound(r0) ELSE Respond(r0, 200, OkBody)]
  /\ UNCHANGED <<products, product_images, product_services, autoInc>>
  /\ UNCHANGED <<schemaVars, lastWriter>>

(***************************************************************************)
(* Initial states: the database of infra/schema.sql behind a fresh process *)
(***************************************************************************)
\* product tables a deployment can have: every optional column and `release`;
\* the bare schema.sql table; two partial migrations
Deployments ==
  { AllColumns \ {"release_date"},
    Range(BaseColumns),
    Range(BaseColumns) \cup {"tags", "active", "warranty", "release_date"},
    Range(BaseColumns) \cup {"specs", "featured", "notes", "release", "release_date"} }

IdA == <<"a">>
IdB == <<"b">>
IdC == <<"c">>

\* the seed product of schema.sql as a row of a table with columns cols
SeedProduct(cols, id, name) ==
  [c \in cols |->
     CASE c = "id" -> Str(id)
       [] c = "name" -> Str(name)
       [] c = "brand" -> Str(<<"Samsung">>)
       [] c = "category" -> Str(<<"Phone">>)
       [] c = "price" -> Num(1199)
       [] c = "stock" -> Num(10)
       [] c = "colors" -> Str(Stringify(Arr(<<Str(<<"Black">>), Str(<<"Silver">>)>>)))
       [] c = "features" -> Str(Stringify(Arr(<<Str(<<"5G">>), Str(<<"NFC">>)>>)))
       [] OTHER -> ColumnDefault(c)]

SeedImage(n, id) == [id |-> n, product_id |-> Str(id), url |-> Str(<<"h", "1">>)]
SeedService(n, id) ==
  [id |-> n, product_id |-> Str(id), k |-> Str(<<"Screen">>), v |-> Str(<<"2", "9", "9">>)]
SeedReview(n, id) ==
  [id |-> n, product_id |-> Str(id), name |-> Str(<<"Alice">>), rating |-> Num(5),
   comment |-> Str(<<"Incredible">>)]

\* the database right after schema.sql: one product with one child of each kind
InitSeed(slots) ==
  /\ tableColumns \in Deployments
  /\ productsColumnSet = tableColumns
  /\ boot = Started(tableColumns)
  /\ products = {SeedProduct(tableColumns, IdA, <<"S21">>)}
  /\ product_images = {SeedImage(1, IdA)}
  /\ product_services = {SeedService(1, IdA)}
  /\ product_reviews = {SeedReview(1, IdA)}
  /\ autoInc = [images |-> 2, services |-> 2, reviews |-> 2]
  /\ req = [s \in slots |-> NoReq]
  /\ nreq = 0
  /\ lastWriter = 0

(***************************************************************************)
(* Request bodies                                                          *)
(***************************************************************************)
BodyFull ==
  Obj(<<Prop("id", Str(IdA)), Prop("name", Str(<<"n">>)),
        Prop("brand", Str(<<"Acme">>)), Prop("price", Str(<<"1", "2">>)),
        Prop("colors", Arr(<<Str(<<"x">>), Num(7)>>)),
        Prop("features", Arr(<<Str(<<"5G">>)>>)),
        Prop("specs", Obj(<<Prop("ram", Num(8)), Prop("os", Str(<<"A">>))>>)),
        Prop("tags", Arr(<<Str(<<"t">>)>>)),
        Prop("active", Bool(FALSE)), Prop("featured", Bool(TRUE)),
        Prop("release", Str(<<"2", "0", "2", "1", "-", "0", "3", "-", "0", "1", "T", "0", "9">>)), Prop("warranty", Num(2)),
        Prop("notes", Str(<<"note">>)),
        Prop("images", Arr(<<Str(<<" ", "u">>), Obj(<<Prop("url", Str(<<"w", " ">>))>>),
                             Str(<<" ">>), Num(5)>>)),
        Prop("services", Arr(<<Obj(<<Prop("k", Str(<<" ", "s">>)), Prop("v", Str(<<"2">>))>>),
                               Null,
                               Obj(<<Prop("key", Str(<<"s">>)), Prop("value", Num(3))>>)>>))>>)

\* only the required fields, the id padded
BodyMin == Obj(<<Prop("id", Str(<<" ", "a", " ">>)), Prop("name", Str(<<"n">>))>>)

\* collections of the wrong shape, services as a mapping
BodyAlt ==
  Obj(<<Prop("id", Str(IdA)), Prop("name", Str(<<" ", "m">>)),
        Prop("colors", Str(<<"x">>)), Prop("specs", Arr(<<Num(1)>>)),
        Prop("tags", Obj(<<>>)), Prop("price", Str(<<"x">>)),
        Prop("images", Arr(<<Str(<<"w">>)>>)),
        Prop("services", Obj(<<<<<<" ", "e">>, Num(7)>>, <<<<"f">>, Null>>>>))>>)

\* a second product
BodyB ==
  Obj(<<Prop("id", Str(IdB)), Prop("name", Str(<<"n">>)),
        Prop("specs", Obj(<<Prop("ram", Num(4))>>)),
        Prop("images", Arr(<<Str(<<"u">>)>>)),
        Prop("services", Arr(<<Obj(<<Prop("k", Str(<<"s">>)), Prop("v", Str(<<"x">>))>>)>>))>>)

\* bodies POST /api/products must reject
BodyNoId == Obj(<<Prop("name", Str(<<"n">>)), Prop("images", Arr(<<Str(<<"u">>)>>))>>)
BodyBlankId == Obj(<<Prop("id", Str(<<" ", " ">>)), Prop("name", Str(<<"n">>))>>)
BodyZeroId == Obj(<<Prop("id", Num(0)), Prop("name", Str(<<"n">>))>>)
BodyNoName == Obj(<<Prop("id", Str(IdA)), Prop("images", Arr(<<Str(<<"u">>)>>))>>)
BodyBlankName == Obj(<<Prop("id", Str(IdA)), Prop("name", Str(<<" ">>))>>)

InvalidBodies == {BodyNoId, BodyBlankId, BodyZeroId, BodyNoName, BodyBlankName}

PostBodies == {BodyFull, BodyMin, BodyAlt, BodyB} \cup InvalidBodies

PutBodies == {BodyFull, BodyMin, BodyNoName}

PathIds == {IdA, IdB}

(***************************************************************************)
(* Spec: the product read and write path, one request at a time            *)
(***************************************************************************)
Init == InitSeed(SeqSlots)

Next ==
  \/ \E s \in DOMAIN req, body \in PostBodies : PostProduct(s, body, FALSE)
  \/ \E s \in DOMAIN req, id \in PathIds, body \in PutBodies : PutProduct(s, id, body, FALSE)
  \/ \E s \in DOMAIN req : ReplaceImagesDelete(s, FALSE)
  \/ \E s \in DOMAIN req : ReplaceImagesInsert(s, FALSE)
  \/ \E s \in DOMAIN req : ReplaceServicesDelete(s, FALSE)
  \/ \E s \in DOMAIN req : ReplaceServicesInsert(s, FALSE)
  \/ \E s \in DOMAIN req, id \in PathIds : GetProduct(s, id)
  \/ \E s \in DOMAIN req : LoadImages(s)
  \/ \E s \in DOMAIN req : LoadServices(s)
  \/ \E s \in DOMAIN req : LoadReviews(s)
  \/ \E s \in DOMAIN req, id \in PathIds : DeleteProduct(s, id)

Spec == Init /\ [][Next]_vars

(***************************************************************************)
(* Properties of the sequential product path (Spec)                        *)
(***************************************************************************)
AllIds == {IdA, IdB, IdC}

\* the store with the surrogate ids of images and services projected away
ViewOf(db) ==
  [products |-> db.products,
   images |-> [id \in AllIds |->
                 LET rows == SelectByProduct(db.images, id)
                 IN [i \in 1..Len(rows) |-> rows[i].url]],
   services |-> [id \in AllIds |->
                   LET rows == SelectByProduct(db.services, id)
                   IN [i \in 1..Len(rows) |-> <<rows[i].k, rows[i].v>>]],
   reviews |-> db.reviews]

\* a required field that is absent, falsy or blank
FieldMissing(body, name) ==
  LET x == Get(body, name)
  IN \/ x.t \in {"undefined", "null"}
     \/ x.t = "number" /\ x.v = 0
     \/ x.t = "string" /\ \A i \in 1..Len(x.v) : x.v[i] = " "

\* C1: a POST /api/products whose id or name is missing or blank after
\* trimming answers 400, has issued no statement, and the four tables are as
\* they were when the request arrived.
C1_InvalidUpsertRejected ==
  \A s \in DOMAIN req :
    (req[s].kind = "postProduct"
       /\ (FieldMissing(req[s].body, "id") \/ FieldMissing(req[s].body, "name")))
    => /\ req[s].pc = "done"
       /\ req[s].status = 400
       /\ req[s].nstmt = 0
       /\ Snapshot = req[s].pre

C1_Witness ==
  \E s \in DOMAIN req :
    /\ req[s].kind = "postProduct"
    /\ req[s].body = BodyBlankId
    /\ req[s].status = 400
    /\ products # {}

\* a slot whose last two requests were the same successful upsert
UpsertedTwice(s) ==
  /\ req[s].kind = "postProduct"
  /\ req[s].status = 201
  /\ req[s].prev.kind = "postProduct"
  /\ req[s].prev.status = 201
  /\ req[s].prev.body = req[s].body

\* C2: when upsert(P) has run twice in sequence, the store after the second
\* run equals the store after the first (surrogate ids aside), and there is
\* exactly one product row with P's id.
C2_UpsertIdempotent ==
  \A s \in DOMAIN req :
    UpsertedTwice(s)
    => /\ ViewOf(Snapshot) = ViewOf(req[s].pre)
       /\ Cardinality({r \in products : r["id"] = Str(req[s].id)}) = 1

C2_Witness ==
  \E s \in DOMAIN req :
    /\ UpsertedTwice(s)
    /\ req[s].body = BodyFull
    /\ Cardinality({r \in product_images : r.product_id = Str(IdA)}) = 2
    /\ Cardinality({r \in product_services : r.product_id = Str(IdA)}) = 2

\* the form the write path gives a collection field of a payload: a value
\* that is not an array becomes [], a specs value that is not a non-null
\* object (or array) becomes {}
NormalArray(x) == IF x.t = "array" THEN x ELSE Arr(<<>>)
NormalObject(x) == IF x.t \in {"array", "object"} THEN x ELSE Obj(<<>>)

\* a slot that read product P.id right after a successful upsert(P)
ReadAfterUpsert(s) ==
  /\ req[s].kind = "getProduct"
  /\ req[s].status = 200
  /\ req[s].prev.kind = "postProduct"
  /\ req[s].prev.status = 201
  /\ req[s].prev.id = req[s].id

RECURSIVE ExpectedUrls(_)
ExpectedUrls(items) ==
  IF items = <<>> THEN <<>>
  ELSE LET x == Head(items)
           u == IF x.t = "string" THEN Trim(x.v)
                ELSE IF x.t = "object" /\ Get(x, "url").t = "string" THEN Trim(Get(x, "url").v)
                ELSE <<>>
       IN (IF u = <<>> THEN <<>> ELSE <<Str(u)>>) \o ExpectedUrls(Tail(items))

ExpectedImages(body) ==
  IF Get(body, "images").t = "array" THEN ExpectedUrls(Get(body, "images").v) ELSE <<>>

\* the image replacement of the write request in slot s has completed
ImagesReplaced(s) ==
  /\ req[s].kind \in {"postProduct", "putProduct"}
  /\ \/ req[s].pc \in {"svcDelete", "svcInsert"}
     \/ req[s].pc = "done" /\ req[s].status \in {200, 201}

StoredUrls(id) ==
  LET rows == SelectByProduct(product_images, id)
  IN [i \in 1..Len(rows) |-> rows[i].url]

\* C4: once replaceImages(id, L) has completed (no store error, no other
\* writer), the images of id in ascending id order are exactly the normalized
\* sequence of L, whatever the collection held before.
C4_ReplaceImagesExact ==
  \A s \in DOMAIN req :
    ImagesReplaced(s) => StoredUrls(req[s].id) = ExpectedImages(req[s].body)

C4_Witness ==
  \E s \in DOMAIN req :
    /\ ImagesReplaced(s)
    /\ req[s].pc = "done"
    /\ req[s].body = BodyAlt
    /\ req[s].prev.body = BodyFull
    /\ req[s].prev.status = 201
    /\ Cardinality({r \in req[s].pre.images : r.product_id = Str(IdA)}) = 2
    /\ StoredUrls(IdA) = <<Str(<<"w">>)>>

\* the optional columns the table lacks read back as these values
AbsentDefaults(out) ==
  /\ "specs" \notin tableColumns => Get(out, "specs") = Obj(<<>>)
  /\ "tags" \notin tableColumns => Get(out, "tags") = Arr(<<>>)
  /\ "active" \notin tableColumns => Get(out, "active") = Bool(TRUE)
  /\ "featured" \notin tableColumns => Get(out, "featured") = Bool(FALSE)
  /\ "warranty" \notin tableColumns => Get(out, "warranty") = EmptyStr
  /\ "notes" \notin tableColumns => Get(out, "notes") = EmptyStr
  /\ tableColumns \cap ReleaseColumns = {} => Get(out, "release") = EmptyStr

\* C7: with the cached column set equal to the table's columns, whatever
\* optional columns are absent, a valid upsert ends with 201, its statement
\* names the base columns and only optional columns the table has (every one
\* of specs, tags, active, featured, warranty, notes that is present, and a
\* release column when one is present), and a read returns the defaults for
\* the absent columns.
C7_OptionalColumnTolerance ==
  productsColumnSet = tableColumns
  => \A s \in DOMAIN req :
       /\ (req[s].kind = "postProduct"
             /\ ~FieldMissing(req[s].body, "id") /\ ~FieldMissing(req[s].body, "name"))
          => /\ req[s].pc = "done" => req[s].status = 201
             /\ Range(req[s].stmt) \subseteq tableColumns
             /\ Range(BaseColumns) \subseteq Range(req[s].stmt)
             /\ Range(OptionalColumns) \cap tableColumns \subseteq Range(req[s].stmt)
             /\ tableColumns \cap ReleaseColumns # {}
                  => Cardinality(Range(req[s].stmt) \cap ReleaseColumns) = 1
       /\ (req[s].kind = "getProduct" /\ req[s].status = 200)
          => AbsentDefaults(req[s].out)

C7_Witness ==
  \E s \in DOMAIN req :
    /\ tableColumns = Range(BaseColumns)
    /\ ReadAfterUpsert(s)
    /\ req[s].prev.body = BodyFull
    /\ Get(req[s].out, "specs") = Obj(<<>>)
    /\ Get(req[s].out, "active") = Bool(TRUE)
    /\ Get(req[s].out, "name") = Str(<<"n">>)

\* C8: a PUT /api/products/:id for an id without a product row answers 404
\* after its one UPDATE statement, and products, images and services (and
\* reviews) are as they were: no row created, no child replaced.
C8_UpdateMissingIs404 ==
  \A s \in DOMAIN req :
    (req[s].kind = "putProduct"
       /\ ~\E r \in req[s].pre.products : r["id"] = Str(req[s].id))
    => /\ req[s].pc = "done"
       /\ req[s].status = 404
       /\ req[s].nstmt = 1
       /\ Snapshot = req[s].pre

C8_Witness ==
  \E s \in DOMAIN req :
    /\ req[s].kind = "putProduct"
    /\ req[s].id = IdB
    /\ req[s].body = BodyFull
    /\ req[s].status = 404
    /\ ~\E r \in products : r["id"] = Str(IdB)

(***************************************************************************)
(* SpecChild: the single-item endpoints, one request at a time, on a       *)
(* database with two products that each own an image, a service, a review  *)
(***************************************************************************)
InitChild ==
  /\ tableColumns = AllColumns \ {"release_date"}
  /\ productsColumnSet = tableColumns
  /\ boot = Started(tableColumns)
  /\ products = {SeedProduct(tableColumns, IdA, <<"S21">>), SeedProduct(tableColumns, IdB, <<"S22">>)}
  /\ product_images = {SeedImage(1, IdA), SeedImage(2, IdB)}
  /\ product_services = {SeedService(1, IdA), SeedService(2, IdB)}
  /\ product_reviews = {SeedReview(1, IdA), SeedReview(2, IdB)}
  /\ autoInc = [images |-> 3, services |-> 3, reviews |-> 3]
  /\ req = [s \in SeqSlots |-> NoReq]
  /\ nreq = 0
  /\ lastWriter = 0

\* child id parameters: the child of product a, the child of product b, none
ChildIds == {<<"1">>, <<"2">>, <<"9">>}

ImageBodies ==
  {Obj(<<Prop("url", Str(<<"u">>))>>), Obj(<<Prop("url", Str(<<" ">>))>>), Obj(<<>>)}

ServiceBodies ==
  {Obj(<<Prop("k", Str(<<"t">>)), Prop("v", Str(<<"4">>))>>),
   Obj(<<Prop("k", Str(<<"t">>))>>),
   Obj(<<Prop("v", Num(0))>>)}

ReviewBodies ==
  {Obj(<<Prop("name", Str(<<"Bob">>)), Prop("rating", Num(4)), Prop("comment", Str(<<"ok">>))>>),
   Obj(<<Prop("name", Str(<<"Bob">>)), Prop("rating", Num(0))>>),
   Obj(<<Prop("name", Str(<<"Bob">>))>>),
   Obj(<<Prop("name", EmptyStr), Prop("rating", Num(5))>>),
   Obj(<<Prop("name", Str(<<"Eve">>)), Prop("rating", Str(<<"0">>))>>),
   Obj(<<Prop("rating", Num(3))>>)}

\* product ids of the child routes: an existing product and an unknown one
ChildPathIds == {IdA, IdC}

NextChild ==
  \/ \E s \in DOMAIN req, id \in ChildPathIds, body \in ImageBodies : PostImage(s, id, body)
  \/ \E s \in DOMAIN req, id \in PathIds, c \in ChildIds : DeleteImage(s, id, c)
  \/ \E s \in DOMAIN req, id \in ChildPathIds, body \in ServiceBodies : PostService(s, id, body)
  \/ \E s \in DOMAIN req, id \in PathIds, c \in ChildIds, body \in ServiceBodies :
        PutService(s, id, c, body)
  \/ \E s \in DOMAIN req, id \in PathIds, c \in ChildIds : DeleteService(s, id, c)
  \/ \E s \in DOMAIN req, id \in ChildPathIds, body \in ReviewBodies : PostReview(s, id, body)
  \/ \E s \in DOMAIN req, id \in PathIds, c \in ChildIds : DeleteReview(s, id, c)
  \/ \E s \in DOMAIN req, id \in AllIds : DeleteProduct(s, id)

SpecChild == InitChild /\ [][NextChild]_vars

\* the child table a single-item request addresses, as it was on arrival
ChildTableBefore(r) ==
  CASE r.kind = "deleteImage" -> r.pre.images
    [] r.kind \in {"putService", "deleteService"} -> r.pre.services
    [] r.kind = "deleteReview" -> r.pre.reviews
    [] OTHER -> {}

\* the request addresses a child row that exists but belongs to another product
ForeignChild(r) ==
  \E row \in ChildTableBefore(r) :
    /\ <<DigitSyms[row.id + 1]>> = r.child
    /\ row.product_id # Str(r.id)

\* C5: a single-item delete or update addressed as (childId, productId) whose
\* child row belongs to a different product answers 404 and leaves that row
\* and every other row unchanged.
C5_ScopedByProduct ==
  \A s \in DOMAIN req :
    ForeignChild(req[s]) => req[s].status = 404 /\ Snapshot = req[s].pre

C5_Witness ==
  \E s \in DOMAIN req :
    /\ req[s].kind = "putService"
    /\ req[s].id = IdA
    /\ req[s].child = <<"2">>
    /\ Get(req[s].body, "k") = Str(<<"t">>)
    /\ req[s].status = 404
    /\ SeedService(2, IdB) \in product_services

\* C6: after DELETE /api/products/:id has answered 200, no image, service or
\* review row with that product_id is left.
C6_DeleteCascades ==
  \A s \in DOMAIN req :
    (req[s].kind = "deleteProduct" /\ req[s].status = 200)
    => /\ ~\E r \in product_images : r.product_id = Str(req[s].id)
       /\ ~\E r \in product_services : r.product_id = Str(req[s].id)
       /\ ~\E r \in product_reviews : r.product_id = Str(req[s].id)

C6_Witness ==
  \E s \in DOMAIN req :
    /\ req[s].kind = "deleteProduct"
    /\ req[s].status = 200
    /\ \E r \in req[s].pre.images : r.product_id = Str(req[s].id)
    /\ \E r \in req[s].pre.services : r.product_id = Str(req[s].id)
    /\ \E r \in req[s].pre.reviews : r.product_id = Str(req[s].id)
    /\ product_images # {}

(***************************************************************************)
(* SpecConc: two upserts in flight at once, interleaved statement by       *)
(* statement                                                               *)
(***************************************************************************)
InitConc == InitSeed(ConcSlots)

\* payloads for the same product id with different rows, images and services
ConcBodies == {BodyFull, BodyAlt, BodyMin}

NextConc ==
  \/ \E s \in DOMAIN req, body \in ConcBodies : PostProduct(s, body, FALSE)
  \/ \E s \in DOMAIN req : ReplaceImagesDelete(s, FALSE)
  \/ \E s \in DOMAIN req : ReplaceImagesInsert(s, FALSE)
  \/ \E s \in DOMAIN req : ReplaceServicesDelete(s, FALSE)
  \/ \E s \in DOMAIN req : ReplaceServicesInsert(s, FALSE)

SpecConc == InitConc /\ [][NextConc]_vars

\* both slots hold a completed, successful upsert of the same product id, the
\* two payloads differ, and nothing is in flight
BothUpserted ==
  /\ \A s \in DOMAIN req : req[s].kind = "postProduct" /\ req[s].pc = "done" /\ req[s].status = 201
  /\ \A s, t \in DOMAIN req : req[s].id = req[t].id
  /\ \E s, t \in DOMAIN req : req[s].body # req[t].body

\* the product row equals, on every column of the upsert statement, the row
\* the payload of slot s gives
RowFrom(s) ==
  \E row \in products :
    /\ row["id"] = Str(req[s].id)
    /\ \A c \in Range(req[s].stmt) :
         row[c] = ValueFor(WritePayload(req[s].body, Str(RequiredField(req[s].body, "name"))),
                           req[s].id, c)

\* C9: once two concurrent upserts of one product id have both completed,
\* there is one product row with that id and it equals, column for column,
\* the row of one payload: that of the request whose upsert statement ran
\* last.  It never mixes columns of both.
C9_LastUpsertWinsRow ==
  BothUpserted
  => /\ Cardinality({row \in products : row["id"] = Str(req[1].id)}) = 1
     /\ lastWriter \in DOMAIN req
     /\ RowFrom(lastWriter)

\* the two requests overlapped: the row is the one of slot 2 while an image of
\* slot 1 was inserted after slot 2 had deleted the images
C9_Witness ==
  /\ BothUpserted
  /\ req[1].body = BodyFull
  /\ req[2].body = BodyAlt
  /\ lastWriter = 2
  /\ RowFrom(2)
  /\ ~RowFrom(1)
  /\ \E r \in product_images : r.url = Str(<<"u">>)

\* C10 as claimed: once two concurrent upserts of one product id have both
\* completed, the stored images are the normalized images of one of the two
\* payloads, and the stored services the normalized services of one of them.
C10_NoMergeOfChildren ==
  BothUpserted
  => /\ \E s \in DOMAIN req : StoredUrls(req[s].id) = ExpectedImages(req[s].body)
     /\ \E s \in DOMAIN req :
          LET rows == SelectByProduct(product_services, req[s].id)
              want == normalizeServices(Get(req[s].body, "services"))
          IN [i \in 1..Len(rows) |-> <<rows[i].k, rows[i].v>>]
               = [i \in 1..Len(want) |-> <<Get(want[i], "k"), Get(want[i], "v")>>]

(***************************************************************************)
(* Specification SpecFail: the upsert path over a store that may reject    *)
(* any statement                                                           *)
(***************************************************************************)
InitFail == InitSeed(SeqSlots)

\* a payload with one image and one service
BodyMix ==
  Obj(<<Prop("id", Str(IdA)), Prop("name", Str(<<"n">>)),
        Prop("images", Arr(<<Str(<<"w">>)>>)),
        Prop("services", Arr(<<Obj(<<Prop("k", Str(<<"s">>)), Prop("v", Str(<<"2">>))>>)>>))>>)

FailBodies == {BodyFull, BodyB, BodyNoId}

NextFail ==
  \/ \E s \in DOMAIN req, body \in FailBodies, fail \in BOOLEAN : PostProduct(s, body, fail)
  \/ \E s \in DOMAIN req, fail \in BOOLEAN : PutProduct(s, IdA, BodyMix, fail)
  \/ \E s \in DOMAIN req, fail \in BOOLEAN : ReplaceImagesDelete(s, fail)
  \/ \E s \in DOMAIN req, fail \in BOOLEAN : ReplaceImagesInsert(s, fail)
  \/ \E s \in DOMAIN req, fail \in BOOLEAN : ReplaceServicesDelete(s, fail)
  \/ \E s \in DOMAIN req, fail \in BOOLEAN : ReplaceServicesInsert(s, fail)

SpecFail == InitFail /\ [][NextFail]_vars

\* the statements of a whole POST /api/products: the upsert, two DELETEs and
\* one INSERT for every url and every service entry of the payload
StatementsOf(body) ==
  3 + Len(normalizeImageUrls(Get(body, "images")))
    + Len(normalizeServices(Get(body, "services")))

\* C11: POST /api/products answers 201 only when every statement of the
\* upsert and of both replacements was issued and none of them threw; once a
\* statement has thrown the request is over: it has answered the generic 500,
\* exactly one statement threw (no retry) and no more statements than the
\* sequence holds were ever issued
C11_NoPartialSuccess ==
  \A s \in DOMAIN req :
    LET r == req[s]
    IN r.kind = "postProduct" =>
         /\ r.nstmt <= StatementsOf(r.body)
         /\ r.status = 201 => r.errs = 0 /\ r.nstmt = StatementsOf(r.body)
         /\ r.errs > 0 => /\ r.pc = "done"
                          /\ r.status = 500
                          /\ r.out = ErrorBody("api error")
                          /\ r.errs = 1

\* a POST whose upsert went through and whose replacement was cut short by a
\* rejected statement
C11_Witness ==
  \E s \in DOMAIN req :
    /\ req[s].kind = "postProduct"
    /\ req[s].status = 500
    /\ req[s].errs = 1
    /\ req[s].nstmt >= 3
    /\ req[s].nstmt < StatementsOf(req[s].body)

(***************************************************************************)
(* Claims on the single-item endpoints, continued (SpecChild)              *)
(***************************************************************************)
\* the review rows the store holds beyond those it held when the request arrived
ReviewAdded(r) == product_reviews \ r.pre.reviews

\* C12: POST /api/products/:id/reviews whose name or rating is missing or
\* falsy (the number 0 included) answers 400 and changes no row; with both
\* truthy, for a product that exists, it answers 201 and adds exactly one
\* review row, of that product and with the name given, to the store, every
\* other row staying as it was.
C12_ReviewValidation ==
  \A s \in DOMAIN req :
    LET r == req[s]
        name == Get(r.body, "name")
        rating == Get(r.body, "rating")
    IN r.kind = "postReview" =>
         /\ (~Truthy(name) \/ ~Truthy(rating))
              => r.status = 400 /\ r.nstmt = 0 /\ Snapshot = r.pre
         /\ (Truthy(name) /\ Truthy(rating) /\ ForeignKeyHolds(r.pre.products, r.id))
              => /\ r.status = 201
                 /\ Cardinality(ReviewAdded(r)) = 1
                 /\ r.pre.reviews \subseteq product_reviews
                 /\ \A row \in ReviewAdded(r) :
                       row.product_id = Str(r.id) /\ row.name = Str(ToStr(name))
                 /\ [Snapshot EXCEPT !.reviews = r.pre.reviews] = r.pre

\* both outcomes: a review with rating 0 refused after one with rating 4 was
\* stored for product a
C12_Witness ==
  \E s \in DOMAIN req :
    /\ req[s].kind = "postReview"
    /\ req[s].id = IdA
    /\ Get(req[s].body, "rating") = Num(0)
    /\ req[s].status = 400
    /\ req[s].prev.kind = "postReview"
    /\ req[s].prev.status = 201
    /\ Cardinality({row \in product_reviews : row.product_id = Str(IdA)}) = 2

(***************************************************************************)
(* Specification SpecRead: GET /api/products/:id over stored rows of every *)
(* shape                                                                   *)
(***************************************************************************)
\* bound on the length of the stored service values
MaxStrLen == 3

StrAlphabet == {" ", "2", "9", "x"}

\* service values a product_services row can hold in column v
StoredStrings ==
  UNION {[1..n -> StrAlphabet] : n \in 0..MaxStrLen}
    \cup {<<"Infinity">>, <<" ", "2", "9", "9", " ">>}

\* what a JSON column of a products row can hold: NULL, malformed text, the
\* text of an array, of an object, of a number and of null, and a value the
\* driver has parsed already
StoredJson ==
  {Null,
   Str(<<"[">>),
   Str(Stringify(Arr(<<Num(1)>>))),
   Str(Stringify(Obj(<<Prop("a", Num(1))>>))),
   Str(<<"7">>),
   Str(<<"null">>),
   Arr(<<Str(<<"x">>)>>)}

\* what the price and stock columns can hold
StoredNumbers == {Num(1199), Null, Str(<<"x">>)}

\* tables with every optional column, with none, and one that predates the
\* colors and features columns
ReadDeployments ==
  { AllColumns \ {"release_date"},
    Range(BaseColumns),
    {"id", "name", "brand", "category", "price", "stock"} }

StoredRow(cols, colors, features, specs, tags, price, stock) ==
  [c \in cols |->
     CASE c = "colors" -> colors
       [] c = "features" -> features
       [] c = "specs" -> specs
       [] c = "tags" -> tags
       [] c = "price" -> price
       [] c = "stock" -> stock
       [] OTHER -> SeedProduct(cols, IdA, <<"S21">>)[c]]

InitRead ==
  /\ tableColumns \in ReadDeployments
  /\ productsColumnSet = tableColumns
  /\ boot = Started(tableColumns)
  /\ \/ /\ \E colors, features, specs, tags \in StoredJson, price, stock \in StoredNumbers :
              products = {StoredRow(tableColumns, colors, features, specs, tags, price, stock)}
        /\ product_services = {SeedService(1, IdA)}
     \/ /\ products = {SeedProduct(tableColumns, IdA, <<"S21">>)}
        /\ \E v \in StoredStrings :
              product_services = {[SeedService(1, IdA) EXCEPT !.v = Str(v)]}
  /\ product_images = {SeedImage(1, IdA)}
  /\ product_reviews = {SeedReview(1, IdA)}
  /\ autoInc = [images |-> 2, services |-> 2, reviews |-> 2]
  /\ req = [s \in SeqSlots |-> NoReq]
  /\ nreq = 0
  /\ lastWriter = 0

NextRead ==
  \/ \E s \in DOMAIN req : GetProduct(s, IdA)
  \/ \E s \in DOMAIN req : LoadImages(s)
  \/ \E s \in DOMAIN req : LoadServices(s)
  \/ \E s \in DOMAIN req : LoadReviews(s)

SpecRead == InitRead /\ [][NextRead]_vars

\* a read of product a that has built its services mapping
ServicesRead(s) ==
  /\ req[s].kind = "getProduct"
  /\ req[s].pc \in {"loadReviews", "done"}
  /\ req[s].status \in {0, 200}

\* the value the stored service of product a holds in column v
StoredV == (CHOOSE row \in product_services : row.product_id = Str(IdA)).v

\* C13: a stored service value that is a string is read back as a number
\* when it trims to a finite number, as the empty string when it trims to
\* nothing, and as the stored string itself otherwise; "299" is read back as
\* the number 299.
C13_MaybeNumber ==
  \A s \in DOMAIN req :
    ServicesRead(s) =>
      LET got == Get(Get(req[s].out, "services"), "Screen")
          tr == Trim(StoredV.v)
      IN /\ tr = <<>> => got = EmptyStr
         /\ AllDigits(tr) => got = Num(DigitsToNat(tr))
         /\ (tr # <<>> /\ ~AllDigits(tr)) => got = StoredV
         /\ StoredV = Str(<<"2", "9", "9">>) => got = Num(299)

C13_Witness ==
  \E s \in DOMAIN req :
    /\ ServicesRead(s)
    /\ req[s].status = 200
    /\ StoredV = Str(<<" ", "2", "9">>)
    /\ Get(Get(req[s].out, "services"), "Screen") = Num(29)

\* a read of product a that has normalized the products row
RowRead(s) ==
  /\ req[s].kind = "getProduct"
  /\ req[s].out.t = "object"
  /\ req[s].status \in {0, 200}

\* C14: for every stored row, normalizeProduct returns colors, features and
\* tags as sequences, specs as a string-keyed mapping, and price and stock as
\* finite numbers.  (Violated: the text of a JSON array stored in specs is
\* returned as that array.)
C14_NormalizedShapes ==
  \A s \in DOMAIN req :
    RowRead(s) =>
      LET out == req[s].out
      IN /\ Get(out, "colors").t = "array"
         /\ Get(out, "features").t = "array"
         /\ Get(out, "tags").t = "array"
         /\ Get(out, "specs").t = "object"
         /\ Get(out, "price").t = "number"
         /\ Get(out, "stock").t = "number"

(***************************************************************************)
(* Specification SpecMix: two handlers running every kind of write request *)
(* on product a, their statements interleaved                              *)
(***************************************************************************)
InitMix == InitSeed(ConcSlots)

MixImage == Obj(<<Prop("url", Str(<<"u">>))>>)
MixService == Obj(<<Prop("k", Str(<<"t">>)), Prop("v", Str(<<"4">>))>>)
MixReview == Obj(<<Prop("name", Str(<<"Bob">>)), Prop("rating", Num(4))>>)

\* the seeded child rows all have id 1
MixChild == <<"1">>

NextMix ==
  \/ \E s \in DOMAIN req : PostProduct(s, BodyMix, FALSE)
  \/ \E s \in DOMAIN req : PutProduct(s, IdA, BodyMix, FALSE)
  \/ \E s \in DOMAIN req : ReplaceImagesDelete(s, FALSE)
  \/ \E s \in DOMAIN req : ReplaceImagesInsert(s, FALSE)
  \/ \E s \in DOMAIN req : ReplaceServicesDelete(s, FALSE)
  \/ \E s \in DOMAIN req : ReplaceServicesInsert(s, FALSE)
  \/ \E s \in DOMAIN req : DeleteProduct(s, IdA)
  \/ \E s \in DOMAIN req : PostImage(s, IdA, MixImage)
  \/ \E s \in DOMAIN req : PostService(s, IdA, MixService)
  \/ \E s \in DOMAIN req : PostReview(s, IdA, MixReview)
  \/ \E s \in DOMAIN req : DeleteImage(s, IdA, MixChild)
  \/ \E s \in DOMAIN req : DeleteService(s, IdA, MixChild)
  \/ \E s \in DOMAIN req : DeleteReview(s, IdA, MixChild)

SpecMix == InitMix /\ [][NextMix]_vars

\* the child rows of the three tables
ChildRows == product_images \cup product_services \cup product_reviews

AppendKinds == {"postImage", "postService", "postReview"}

\* C15: in every reachable state every image, service and review row has a
\* product_id for which a product row exists, whatever the interleaving of
\* upsert, update, product delete, replacement and single-item requests; an
\* append to a product that does not exist is not answered as created (and,
\* by the first part, has left no row).
C15_ReferentialIntegrity ==
  /\ \A row \in ChildRows : \E p \in products : p["id"] = row.product_id
  /\ \A s \in DOMAIN req :
        (req[s].kind \in AppendKinds /\ req[s].pc = "done"
           /\ ~\E p \in req[s].pre.products : p["id"] = Str(req[s].id))
        => req[s].status # 201

\* an append that arrived after the product was deleted
C15_Witness ==
  \E s \in DOMAIN req :
    /\ req[s].kind \in AppendKinds
    /\ req[s].status = 500
    /\ req[s].pre.products = {}
    /\ ChildRows = {}

(***************************************************************************)
(* Stored child rows (SpecChild)                                           *)
(***************************************************************************)
\* C16: every product_images row has a url that is a non-empty string after
\* trimming.  (Violated: POST .../images stores String(url) untrimmed and
\* tests only that url is truthy, so a url of blanks is stored.)
C16_StoredUrlsNonEmpty ==
  \A row \in product_images :
    row.url.t = "string" /\ Trim(row.url.v) # <<>>

\* C17: every product_services row has a key k that is a non-empty string.
\* (Violated: PUT .../services/:serviceId without k stores k = NULL.)
C17_StoredKeysNonEmpty ==
  \A row \in product_services :
    row.k.t = "string" /\ row.k.v # <<>>

(***************************************************************************)
(* Specification SpecCols: the upsert over every cached column set         *)
(***************************************************************************)
\* the base columns with any of the optional columns and release column names
ColumnSets ==
  {Range(BaseColumns) \cup extra : extra \in SUBSET (Range(OptionalColumns) \cup ReleaseColumns)}

InitCols ==
  /\ tableColumns \in ColumnSets
  /\ productsColumnSet = tableColumns
  /\ boot = Started(tableColumns)
  /\ products = {SeedProduct(tableColumns, IdA, <<"S21">>)}
  /\ product_images = {SeedImage(1, IdA)}
  /\ product_services = {SeedService(1, IdA)}
  /\ product_reviews = {SeedReview(1, IdA)}
  /\ autoInc = [images |-> 2, services |-> 2, reviews |-> 2]
  /\ req = [s \in SeqSlots |-> NoReq]
  /\ nreq = 0
  /\ lastWriter = 0

\* a payload with a release date
BodyRelease ==
  Obj(<<Prop("id", Str(IdA)), Prop("name", Str(<<"n">>)),
        Prop("release", Str(<<"2", "0", "2", "2">>))>>)

NextCols ==
  \/ \E s \in DOMAIN req : PostProduct(s, BodyMin, FALSE)
  \/ \E s \in DOMAIN req : PutProduct(s, IdA, BodyRelease, FALSE)
  \/ \E s \in DOMAIN req : ReplaceImagesDelete(s, FALSE)
  \/ \E s \in DOMAIN req : ReplaceServicesDelete(s, FALSE)

SpecCols == InitCols /\ [][NextCols]_vars

\* C18: whatever the cached column set holds, the columns the upsert
\* statement overwrites on a primary-key conflict are exactly the columns it
\* inserts, id excepted: none missing, none added, none twice.
C18_ConflictUpdatesInserted ==
  \A s \in DOMAIN req :
    (req[s].kind = "postProduct" /\ req[s].nstmt >= 1)
    => /\ "id" \in Range(req[s].stmt)
       /\ Range(req[s].upd) = Range(req[s].stmt) \ {"id"}
       /\ Len(req[s].upd) = Cardinality(Range(req[s].upd))
       /\ Len(req[s].stmt) = Cardinality(Range(req[s].stmt))

\* an upsert over a table with tags and only the release_date name
C18_Witness ==
  \E s \in DOMAIN req :
    /\ req[s].kind = "postProduct"
    /\ req[s].status = 201
    /\ productsColumnSet = Range(BaseColumns) \cup {"tags", "release_date"}
    /\ Range(req[s].upd) = (Range(BaseColumns) \ {"id"}) \cup {"tags", "release_date"}

(***************************************************************************)
(* The write path and the reviews (SpecMix)                                *)
(***************************************************************************)
WriteKinds == {"postProduct", "putProduct"}

\* C19: no step of POST /api/products or PUT /api/products/:id, their image
\* and service replacements included, inserts, modifies or deletes a
\* product_reviews row: every statement of the write path leaves the table
\* as it finds it, also while other requests run in between.
C19_WritePathLeavesReviews ==
  [][\A s \in DOMAIN req :
       (req'[s] # req[s] /\ req'[s].kind \in WriteKinds)
       => product_reviews' = product_reviews]_vars

\* an upsert and an update of product a both completed, its review in place
C19_Witness ==
  /\ \A s \in DOMAIN req : req[s].kind \in WriteKinds /\ req[s].status \in {200, 201}
  /\ \E s \in DOMAIN req : req[s].kind = "putProduct"
  /\ SeedReview(1, IdA) \in product_reviews

(***************************************************************************)
(* Duplicate service keys (Spec)                                           *)
(***************************************************************************)
\* the (trimmed key, value) occurrences of the services of a payload
ServiceOccurrences(body) == normalizeServices(Get(body, "services"))

\* the same key occurs more than once
HasDuplicateKey(occ) ==
  \E i, j \in 1..Len(occ) : i < j /\ Get(occ[i], "k") = Get(occ[j], "k")

\* the index of the last occurrence of the key of occurrence i
LastOf(occ, i) ==
  CHOOSE j \in 1..Len(occ) :
    /\ Get(occ[j], "k") = Get(occ[i], "k")
    /\ \A m \in 1..Len(occ) : Get(occ[m], "k") = Get(occ[i], "k") => m <= j

\* C20: a completed write whose services repeat a key has stored one row per
\* occurrence, repeated keys included, in input order; a read that follows an
\* upsert returns for every key the value of its last occurrence.
C20_DuplicateServiceKeys ==
  \A s \in DOMAIN req :
    /\ (req[s].kind \in WriteKinds /\ req[s].status \in {200, 201})
       => LET occ == ServiceOccurrences(req[s].body)
              rows == SelectByProduct(product_services, req[s].id)
          IN /\ Len(rows) = Len(occ)
             /\ \A i \in 1..Len(occ) :
                   rows[i].k = Get(occ[i], "k") /\ rows[i].v = Get(occ[i], "v")
    /\ ReadAfterUpsert(s)
       => LET occ == ServiceOccurrences(req[s].prev.body)
              services == Get(req[s].out, "services")
          IN /\ Len(services.v) = Cardinality({Get(occ[i], "k") : i \in 1..Len(occ)})
             /\ \A i \in 1..Len(occ) :
                   Lookup(services.v, Get(occ[i], "k").v)
                     = maybeNumber(Get(occ[LastOf(occ, i)], "v"))

\* the payload with key s given twice was upserted and read back: two rows
\* of key s are stored and the mapping holds the second value
C20_Witness ==
  \E s \in DOMAIN req :
    /\ ReadAfterUpsert(s)
    /\ HasDuplicateKey(ServiceOccurrences(req[s].prev.body))
    /\ Cardinality({row \in product_services : row.k = Str(<<"s">>)}) = 2
    /\ Get(Get(req[s].out, "services"), "s") = Num(3)

(***************************************************************************)
(* Specification SpecStart: start() with ensureProductsColumns over a      *)
(* store that may reject any of its statements, then upserts               *)
(***************************************************************************)
\* ensureProductsColumns: the metadata query and the list of missing
\* columns; a rejected query leaves ensureProductsColumns by its throw, which
\* start() catches
EnsureProbe(fail) ==
  /\ boot.pc = "probe"
  /\ IF fail
     THEN /\ boot' = [boot EXCEPT !.pc = "listen"]
          /\ UNCHANGED productsColumnSet
     ELSE /\ productsColumnSet' = tableColumns
          /\ boot' = [boot EXCEPT !.probed = tableColumns,
                                  !.missing = MissingColumns(tableColumns),
                                  !.pc = IF MissingColumns(tableColumns) = <<>>
                                         THEN "refresh" ELSE "add"]
  /\ UNCHANGED <<tableColumns, storeVars, req, nreq, lastWriter>>

\* one turn of the loop over missing: ALTER TABLE products ADD COLUMN.  The
\* store answers ER_DUP_FIELDNAME for a column the table has; fail is any
\* other rejection (no ALTER privilege); both are caught inside the loop
EnsureAdd(fail) ==
  /\ boot.pc = "add"
  /\ LET col == Head(boot.missing).col
         threw == col \in tableColumns \/ fail
         rest == Tail(boot.missing)
     IN /\ tableColumns' = IF threw THEN tableColumns ELSE tableColumns \cup {col}
        /\ products' = IF threw THEN products
                       ELSE {[c \in tableColumns \cup {col} |->
                                IF c = col THEN ColumnDefault(c) ELSE r[c]] : r \in products}
        /\ boot' = [boot EXCEPT !.missing = rest,
                                !.attempted = @ \cup {col},
                                !.failed = IF threw THEN @ \cup {col} ELSE @,
                                !.pc = IF rest = <<>> THEN "refresh" ELSE "add"]
  /\ UNCHANGED <<productsColumnSet, product_images, product_services, product_reviews,
                 autoInc, req, nreq, lastWriter>>

\* the refresh of the cached set after the loop, inside its own try
EnsureRefresh(fail) ==
  /\ boot.pc = "refresh"
  /\ productsColumnSet' = IF fail THEN productsColumnSet ELSE tableColumns
  /\ boot' = [boot EXCEPT !.pc = "listen"]
  /\ UNCHANGED <<tableColumns, storeVars, req, nreq, lastWriter>>

\* app.listen(PORT, HOST)
Listen ==
  /\ boot.pc = "listen"
  /\ boot' = [boot EXCEPT !.pc = "listening"]
  /\ UNCHANGED <<tableColumns, productsColumnSet, storeVars, req, nreq, lastWriter>>

InitStart ==
  /\ tableColumns \in Deployments
  /\ productsColumnSet = {}
  /\ boot = Starting
  /\ products = {SeedProduct(tableColumns, IdA, <<"S21">>)}
  /\ product_images = {SeedImage(1, IdA)}
  /\ product_services = {SeedService(1, IdA)}
  /\ product_reviews = {SeedReview(1, IdA)}
  /\ autoInc = [images |-> 2, services |-> 2, reviews |-> 2]
  /\ req = [s \in SeqSlots |-> NoReq]
  /\ nreq = 0
  /\ lastWriter = 0

NextStart ==
  \/ \E fail \in BOOLEAN : EnsureProbe(fail)
  \/ \E fail \in BOOLEAN : EnsureAdd(fail)
  \/ \E fail \in BOOLEAN : EnsureRefresh(fail)
  \/ Listen
  \/ \E s \in DOMAIN req : PostProduct(s, BodyMin, FALSE)
  \/ \E s \in DOMAIN req : ReplaceImagesDelete(s, FALSE)
  \/ \E s \in DOMAIN req : ReplaceServicesDelete(s, FALSE)

SpecStart == InitStart /\ [][NextStart]_vars

\* ensureProductsColumns has probed and is through with its loop
AddsDone == boot.probed # {} /\ boot.pc \in {"refresh", "listen", "listening"}

\* the columns the probe reported absent that ensureColumns is to add: every
\* absent optional column, and the release column when neither name is there
ColumnsToAdd(probed) ==
  (Range(OptionalColumns) \ probed)
    \cup (IF probed \cap ReleaseColumns = {} THEN {"release"} ELSE {})

\* C21: once the loop of ensureProductsColumns is through, the ADD COLUMN
\* statements it attempted are exactly those of the optional columns the
\* probe reported absent, the release column among them only when the probe
\* reported neither release nor release_date, and none is for a column the
\* probe reported present.  (Violated: the test is on release_date, the
\* statement adds release.)
C21_AddsExactlyAbsent ==
  AddsDone =>
    /\ boot.attempted = ColumnsToAdd(boot.probed)
    /\ boot.attempted \cap boot.probed = {}

\* C22: whatever statements of the probe fail, start() comes to listen, and
\* a column whose ADD COLUMN failed is not in the cached set of the listening
\* process.  (Violated: the ADD of release fails as a duplicate when the
\* table has release, which the cached set then holds.)
C22_FailedAddStaysAbsent ==
  boot.pc = "listening" => boot.failed \cap productsColumnSet = {}

\* C23: no step of a request handler is taken before start() has come to
\* app.listen, and once the server listens no step changes the cached column
\* set or runs any part of the probe again.
C23_ProbeOnceBeforeTraffic ==
  [][/\ req' # req => boot.pc = "listening"
     /\ boot.pc = "listening" => productsColumnSet' = productsColumnSet /\ boot' = boot]_vars

\* an upsert answered by a process whose probe added columns and refreshed
\* its cached set before listening
C23_Witness ==
  /\ boot.pc = "listening"
  /\ boot.attempted # boot.failed
  /\ productsColumnSet # boot.probed
  /\ \E s \in DOMAIN req : req[s].kind = "postProduct" /\ req[s].status = 201

(***************************************************************************)
(* The release column (SpecCols)                                           *)
(***************************************************************************)
\* the product row of id a
RowA == CHOOSE r \in products : r["id"] = Str(IdA)

\* C24: the upsert and the update name release when the cached set has it
\* (with or without release_date), release_date when only that name is
\* there, and no release column when neither is; in the last case the request
\* still succeeds.  A completed update has stored the payload's release
\* date in the column named.
C24_ReleaseColumnResolution ==
  \A s \in DOMAIN req :
    (req[s].kind \in WriteKinds /\ req[s].nstmt >= 1)
    => LET named == Range(req[s].stmt) \cap ReleaseColumns
       IN /\ "release" \in productsColumnSet => named = {"release"}
          /\ ("release" \notin productsColumnSet /\ "release_date" \in productsColumnSet)
               => named = {"release_date"}
          /\ productsColumnSet \cap ReleaseColumns = {}
               => /\ named = {}
                  /\ req[s].status # 500
                  /\ req[s].pc = "done" => req[s].status \in {200, 201}
          /\ (req[s].kind = "putProduct" /\ req[s].status = 200)
               => \A c \in named : RowA[c] = Get(req[s].body, "release")

\* an update over a table with both names: release took the date
C24_Witness ==
  \E s \in DOMAIN req :
    /\ req[s].kind = "putProduct"
    /\ req[s].status = 200
    /\ ReleaseColumns \subseteq productsColumnSet
    /\ RowA["release"] = Str(<<"2", "0", "2", "2">>)
    /\ RowA["release_date"] = Null

(***************************************************************************)
(* Specification SpecDrift: the table altered behind a running process     *)
(***************************************************************************)
\* optional columns an operator adds or drops while the process runs
DriftColumns == {"notes", "release"}

\* ALTER TABLE products ADD COLUMN c, issued outside the process
ExternalAddColumn(c) ==
  /\ boot.pc = "listening"
  /\ c \notin tableColumns
  /\ tableColumns' = tableColumns \cup {c}
  /\ products' = {[d \in tableColumns \cup {c} |->
                     IF d = c THEN ColumnDefault(d) ELSE r[d]] : r \in products}
  /\ UNCHANGED <<productsColumnSet, boot, product_images, product_services,
                 product_reviews, autoInc, req, nreq, lastWriter>>

\* ALTER TABLE products DROP COLUMN c, issued outside the process
ExternalDropColumn(c) ==
  /\ boot.pc = "listening"
  /\ c \in tableColumns
  /\ tableColumns' = tableColumns \ {c}
  /\ products' = {[d \in tableColumns \ {c} |-> r[d]] : r \in products}
  /\ UNCHANGED <<productsColumnSet, boot, product_images, product_services,
                 product_reviews, autoInc, req, nreq, lastWriter>>

InitDrift == InitSeed(SeqSlots)

NextDrift ==
  \/ \E c \in DriftColumns : ExternalAddColumn(c)
  \/ \E c \in DriftColumns : ExternalDropColumn(c)
  \/ \E s \in DOMAIN req : PostProduct(s, BodyMin, FALSE)
  \/ \E s \in DOMAIN req : PutProduct(s, IdA, BodyRelease, FALSE)
  \/ \E s \in DOMAIN req : ReplaceImagesDelete(s, FALSE)
  \/ \E s \in DOMAIN req : ReplaceServicesDelete(s, FALSE)

SpecDrift == InitDrift /\ [][NextDrift]_vars

\* C25: however the cached column set differs from the columns of the table,
\* by an entry it lacks or by an entry for a column the table does not have,
\* an upsert or update with a valid payload does not fail.  (Violated: the
\* statement names every cached column, a dropped one included, and the store
\* rejects it.)
C25_CacheAdvisoryOnly ==
  \A s \in DOMAIN req :
    req[s].kind \in WriteKinds => req[s].status # 500

(***************************************************************************)
(* The replacement cut short (SpecFail)                                    *)
(***************************************************************************)
\* the urls and the service entries a write request asks for
AskedUrls(r) == normalizeImageUrls(Get(r.body, "images"))
AskedServices(r) == normalizeServices(Get(r.body, "services"))

\* the request ended on a rejected INSERT of its image replacement: the
\* statements before it were the write, the DELETE and nstmt - 3 INSERTs
ImageInsertFailed(r) ==
  /\ r.kind \in WriteKinds /\ r.status = 500 /\ r.errs = 1
  /\ r.nstmt >= 3 /\ r.nstmt <= 2 + Len(AskedUrls(r))

\* the same for the service replacement
ServiceInsertFailed(r) ==
  /\ r.kind \in WriteKinds /\ r.status = 500 /\ r.errs = 1
  /\ r.nstmt >= 4 + Len(AskedUrls(r))
  /\ r.nstmt <= 3 + Len(AskedUrls(r)) + Len(AskedServices(r))

\* C26: a write request whose replacement was cut short by a store failure
\* after its DELETE has answered 500 and is over, and the collection it was
\* replacing holds exactly the entries inserted before the failure, none or
\* a strict prefix of those asked for; none of the rows the product had when
\* the request arrived is left.
C26_ReplaceGap ==
  \A s \in DOMAIN req :
    LET r == req[s]
    IN /\ ImageInsertFailed(r)
          => LET rows == SelectByProduct(product_images, r.id)
             IN /\ r.pc = "done"
                /\ Len(rows) = r.nstmt - 3
                /\ Len(rows) < Len(AskedUrls(r))
                /\ \A i \in 1..Len(rows) : rows[i].url = AskedUrls(r)[i]
                /\ product_images \cap r.pre.images
                     = {old \in r.pre.images : old.product_id # Str(r.id)}
       /\ ServiceInsertFailed(r)
          => LET rows == SelectByProduct(product_services, r.id)
                 done == r.nstmt - 4 - Len(AskedUrls(r))
             IN /\ r.pc = "done"
                /\ Len(rows) = done
                /\ Len(rows) < Len(AskedServices(r))
                /\ \A i \in 1..Len(rows) :
                      rows[i].k = Get(AskedServices(r)[i], "k")
                        /\ rows[i].v = Get(AskedServices(r)[i], "v")
                /\ product_services \cap r.pre.services
                     = {old \in r.pre.services : old.product_id # Str(r.id)}

\* the first INSERT of the image replacement of product a was rejected: the
\* seeded image is gone and no image is left
C26_Witness ==
  \E s \in DOMAIN req :
    /\ ImageInsertFailed(req[s])
    /\ req[s].id = IdA
    /\ req[s].nstmt = 3
    /\ SeedImage(1, IdA) \in req[s].pre.images
    /\ product_images = {}

(***************************************************************************)
(* Specification SpecReadConc: a read of product a next to upserts of it   *)
(***************************************************************************)
InitReadConc == InitSeed(ConcSlots)

NextReadConc ==
  \/ \E s \in DOMAIN req : PostProduct(s, BodyMix, FALSE)
  \/ \E s \in DOMAIN req : ReplaceImagesDelete(s, FALSE)
  \/ \E s \in DOMAIN req : ReplaceImagesInsert(s, FALSE)
  \/ \E s \in DOMAIN req : ReplaceServicesDelete(s, FALSE)
  \/ \E s \in DOMAIN req : ReplaceServicesInsert(s, FALSE)
  \/ \E s \in DOMAIN req : GetProduct(s, IdA)
  \/ \E s \in DOMAIN req : LoadImages(s)
  \/ \E s \in DOMAIN req : LoadServices(s)
  \/ \E s \in DOMAIN req : LoadReviews(s)

SpecReadConc == InitReadConc /\ [][NextReadConc]_vars

\* name, images and services of a product as a read returns them
Aggregate(name, urls, serviceRows) ==
  [name |-> name, images |-> Arr(urls), services |-> ServicesMapping(serviceRows, <<>>)]

\* product a before any upsert: the seed
AggregateBefore ==
  Aggregate(Str(<<"S21">>), <<SeedImage(1, IdA).url>>, <<SeedService(1, IdA)>>)

\* product a after an upsert of BodyMix has completed
AggregateAfter ==
  LET occ == normalizeServices(Get(BodyMix, "services"))
  IN Aggregate(Str(RequiredField(BodyMix, "name")),
               normalizeImageUrls(Get(BodyMix, "images")),
               [i \in 1..Len(occ) |-> [k |-> Get(occ[i], "k"), v |-> Get(occ[i], "v")]])

\* C27: a GET /api/products/a that runs next to upserts of product a
\* returns name, images and services of one state of the product: the one
\* before the upsert or the one after it.  (Violated: the read is four
\* SELECTs and the write is separate statements, none in a transaction.)
C27_ReadIsAtomic ==
  \A s \in DOMAIN req :
    (req[s].kind = "getProduct" /\ req[s].status = 200)
    => [name |-> Get(req[s].out, "name"),
        images |-> Get(req[s].out, "images"),
        services |-> Get(req[s].out, "services")] \in {AggregateBefore, AggregateAfter}

(***************************************************************************)
(* Writes that omit fields (Spec)                                          *)
(***************************************************************************)
\* what a column holds after a write whose body omits the field
OmittedValue(c) ==
  CASE c \in {"brand", "category", "warranty", "notes", "release", "release_date"} -> Null
    [] c \in {"price", "stock", "featured"} -> Num(0)
    [] c \in {"colors", "features", "tags"} -> Str(<<"[", "]">>)
    [] c = "specs" -> Str(<<"{", "}">>)
    [] c = "active" -> Num(1)

\* a finished, successful write of BodyMin (id and name only) to a product
\* that existed when the request arrived
OmittingWrite(r) ==
  /\ r.kind \in WriteKinds
  /\ r.pc = "done"
  /\ r.status \in {200, 201}
  /\ r.body = BodyMin
  /\ \E row \in r.pre.products : row["id"] = Str(r.id)

\* C28: POST and PUT overwrite the whole product.  After a successful write
\* to an existing product whose body holds only id and name, every other
\* column the statement names holds its default (brand, category, warranty,
\* notes and the release column NULL, price and stock 0, colors, features
\* and tags "[]", specs "{}", active 1, featured 0) and the product has no
\* image and no service.
C28_FullOverwrite ==
  \A s \in DOMAIN req :
    OmittingWrite(req[s])
    => /\ \A row \in products :
            row["id"] = Str(req[s].id)
            => \A c \in Range(req[s].stmt) \ {"id", "name"} : row[c] = OmittedValue(c)
       /\ SelectByProduct(product_images, req[s].id) = <<>>
       /\ SelectByProduct(product_services, req[s].id) = <<>>

\* a product written in full (notes, warranty, specs, images, services) and
\* then overwritten by a body with id and name only: notes are gone
C28_Witness ==
  \E s \in DOMAIN req :
    /\ OmittingWrite(req[s])
    /\ "notes" \in Range(req[s].stmt)
    /\ \E row \in req[s].pre.products :
         row["id"] = Str(req[s].id) /\ row["notes"] = Str(<<"note">>)
    /\ SelectByProduct(req[s].pre.images, req[s].id) # <<>>
    /\ \E row \in products : row["id"] = Str(req[s].id) /\ row["notes"] = Null

(***************************************************************************)
(* The write path and the other products (SpecFail)                        *)
(***************************************************************************)
\* every row of the store that belongs to product y
RowsOf(db, y) ==
  [products |-> {r \in db.products : r["id"] = Str(y)},
   images |-> {r \in db.images : r.product_id = Str(y)},
   services |-> {r \in db.services : r.product_id = Str(y)},
   reviews |-> {r \in db.reviews : r.product_id = Str(y)}]

\* C29: no step of an upsert or an update of product X (the product
\* statement, the DELETE and the INSERTs of replaceProductImages and
\* replaceProductServices), executed or rejected by the store, changes the
\* product row or any image, service or review row of a product Y # X.
C29_CrossProductFrame ==
  [][\A s \in DOMAIN req :
       (req'[s] # req[s] /\ req'[s].kind \in WriteKinds)
       => \A y \in AllIds :
            y # req'[s].id => RowsOf(Snapshot, y)' = RowsOf(Snapshot, y)]_vars

\* product b was created with an image and a service; then an update of
\* product a was cut short by the store after its product statement, and
\* every row of b is as the update found it
C29_Witness ==
  \E s \in DOMAIN req :
    /\ req[s].kind = "putProduct"
    /\ req[s].id = IdA
    /\ req[s].status = 500
    /\ req[s].nstmt >= 2
    /\ RowsOf(req[s].pre, IdB).products # {}
    /\ RowsOf(req[s].pre, IdB).images # {}
    /\ RowsOf(req[s].pre, IdB).services # {}
    /\ RowsOf(Snapshot, IdB) = RowsOf(req[s].pre, IdB)
    /\ RowsOf(Snapshot, IdA) # RowsOf(req[s].pre, IdA)
====
